---- MODULE Spec2Model ----
(***************************************************************************)
(* Reconciliation of the presentation tree of a TableView page (AppsPage   *)
(* or ServicesPage) against periodic snapshots, and the grouping resolver  *)
(* primary_processes.                                                      *)
(*                                                                         *)
(* A presentation node (RowModel) is an object: the heap maps an object    *)
(* reference (a positive integer) to the node's fields.  A gio::ListStore  *)
(* of children is the sequence of references in the owner's `children`     *)
(* field.  A freshly built node takes the least reference that no object   *)
(* alive before or during the cycle holds, so a node built in a cycle never*)
(* has the reference of a node that existed after the previous cycle: two  *)
(* consecutive states hold the same object iff they hold the same          *)
(* reference.                                                              *)
(***************************************************************************)
EXTENDS Integers, Sequences, FiniteSets, TLC

VARIABLES
    settings_namespace,  \* TableView.settings_namespace: which page this view serves
    heap,                \* object reference -> RowModel fields
    readings,            \* the snapshot the last refresh cycle reconciled
    diagnostics,         \* app ids for which the last cycle logged g_critical
    use_merged_stats,    \* TableView.use_merged_stats
    cycle,               \* number of refresh cycles run so far
    before,              \* heap and readings as they were when the last cycle began
    app_arg,             \* primary_processes: the App argument
    process_map_arg,     \* primary_processes: the process table argument
    primary_result,      \* primary_processes: <<>> before the call, <<the returned set>> after
    selected_item,       \* TableView.selected_item: a reference, 0 for the empty placeholder
    dispatched,          \* <<>>, or <<the pid list the last process action sent to magpie>>
    stoppable_result,    \* <<>>, or <<argument, result>> of the last find_stoppable_child
    action_enabled,      \* gio::SimpleAction name -> is_enabled; <<>> while no action is made
    call_stack,          \* the update_processes calls in progress, innermost last
    outcome,             \* "idle", "running", "completed" or "stack overflow"
    search_button,       \* MissionCenterWindow.search_button is active
    header_search_entry, \* MissionCenterWindow.header_search_entry: its text
    filter_item,         \* the RowModel handed to the filter
    search_result,       \* <<>> before the call, <<what the search closure returned>> after
    previous_search,     \* <<>>, or <<text, result>> of the search before the text was edited
    toggle_group,        \* the toggle buttons handed to setup: is_active of each, <<>> for None
    filter_list_model,   \* gtk::FilterListModel: row -> what the filter read and answered
    view_log,            \* the events of the view so far, oldest first
    headers,             \* ServicesPage: the service counters and the label h2
    settings,            \* gio::Settings: key -> stored value
    column_view,         \* gtk::ColumnView: its columns in order and its sort
    column_titles,       \* the numbers in the titles of the stat columns, <<>> before any
    phase                \* "new" before TableView::setup, "running" after

pageVars == <<settings_namespace, heap, readings, diagnostics, use_merged_stats, cycle,
              before>>
resolverVars == <<app_arg, process_map_arg, primary_result>>
actionVars == <<selected_item, dispatched, stoppable_result, action_enabled>>
recursionVars == <<call_stack, outcome>>
filterVars == <<search_button, header_search_entry, filter_item, search_result, previous_search>>
viewVars == <<toggle_group, filter_list_model, view_log, headers>>
settingsVars == <<settings, column_view, phase, column_titles>>
restVars == <<recursionVars, filterVars, viewVars, settingsVars>>
vars == <<settings_namespace, heap, readings, diagnostics, use_merged_stats, cycle, before,
          app_arg, process_map_arg, primary_result, selected_item, dispatched,
          stoppable_result, call_stack, outcome, search_button, header_search_entry,
          filter_item, search_result, previous_search, toggle_group, filter_list_model,
          view_log, settings, column_view, phase, action_enabled, headers, column_titles>>

----------------------------------------------------------------------------
(* Bounds of the model *)

MaxPid == 3
MaxCycles == 2
MaxSeed == 0
MaxAppPids == 2
MaxServices == 2
MaxStat == 60      \* the greatest value a stat field holds

Pids == 1..MaxPid
Seeds == 0..MaxSeed
AppIds == {"a", "b"}
UserServiceIds == {7, 8}
SystemServiceIds == {9}
ServiceIds == UserServiceIds \cup SystemServiceIds

----------------------------------------------------------------------------
(* Generic helpers *)

Range(s) == {s[i] : i \in 1..Len(s)}

Min(S) == CHOOSE x \in S : \A y \in S : x <= y

(* ProcessUsageStats::merge (magpie_types): the field-wise saturating sum *)
merge(a, b) == Min({a + b, MaxStat})

RECURSIVE SumOver(_, _)
SumOver(S, f) ==
    IF S = {} THEN 0
    ELSE LET x == CHOOSE y \in S : TRUE IN merge(f[x], SumOver(S \ {x}, f))

(* u32::to_string / u64::to_string: the decimal representation *)
Digit == <<"0", "1", "2", "3", "4", "5", "6", "7", "8", "9">>

RECURSIVE to_string(_)
to_string(n) ==
    IF n < 10 THEN Digit[n + 1]
    ELSE to_string(n \div 10) \o Digit[(n % 10) + 1]

(* Iteration order of a HashSet / HashMap: unspecified by the language.  A  *)
(* seed chosen for the cycle fixes it: the elements by rank, rotated by the *)
(* seed.                                                                    *)
RECURSIVE SortByKey(_, _)
SortByKey(S, key) ==
    IF S = {} THEN <<>>
    ELSE LET x == CHOOSE y \in S : \A z \in S : key[y] <= key[z]
         IN <<x>> \o SortByKey(S \ {x}, key)

HashIter(S, rank, seed) ==
    LET m == Cardinality(DOMAIN rank) + 1
    IN SortByKey(S, [x \in S |-> (rank[x] + seed) % m])

PidRank == [p \in 0..(MaxPid + 1) |-> p]
AppRank == [a \in AppIds |-> IF a = "a" THEN 0 ELSE 1]
ServiceRank == [s \in ServiceIds |-> s - Min(ServiceIds)]

----------------------------------------------------------------------------
(* Text: a name, path or argument is the sequence of its characters *)

Last(s) == s[Len(s)]

IsPrefix(p, s) == Len(p) <= Len(s) /\ SubSeq(s, 1, Len(p)) = p

(* str::contains *)
Contains(s, q) == \E i \in 0..(Len(s) - Len(q)) : SubSeq(s, i + 1, i + Len(q)) = q

(* str::split: the pieces between the occurrences of a one-character        *)
(* separator; a text without separator is one piece                         *)
RECURSIVE Split(_, _)
Split(s, sep) ==
    IF \A i \in 1..Len(s) : s[i] # sep THEN <<s>>
    ELSE LET i == CHOOSE k \in 1..Len(s) : s[k] = sep /\ \A j \in 1..(k - 1) : s[j] # sep
         IN <<SubSeq(s, 1, i - 1)>> \o Split(SubSeq(s, i + 1, Len(s)), sep)

Whitespace == {" "}

(* str::trim *)
RECURSIVE trim(_)
trim(s) ==
    IF s = <<>> THEN s
    ELSE IF Head(s) \in Whitespace THEN trim(Tail(s))
    ELSE IF Last(s) \in Whitespace THEN trim(SubSeq(s, 1, Len(s) - 1))
    ELSE s

(* str::split_ascii_whitespace().next(): <<>> (None) or <<the first word>> *)
first_word(s) ==
    LET pieces == SelectSeq(Split(s, " "), LAMBDA w : w # <<>>)
    IN IF pieces = <<>> THEN <<>> ELSE <<pieces[1]>>

(* str::strip_suffix(':') when it is Some, else the text itself *)
strip_colon(s) == IF s # <<>> /\ Last(s) = ":" THEN SubSeq(s, 1, Len(s) - 1) ELSE s

----------------------------------------------------------------------------
(* Snapshots (magpie Readings) *)

(* ProcessUsageStats of a process: one number stands for the seven fields,  *)
(* which are always read and written together; it differs per pid and tick. *)
Usage(pid, tick) == (10 * tick) + pid

(* A process table over a set S of pids: a forest given by parent links,    *)
(* a child having a greater pid than its parent.                            *)
ParentMaps(S) == {par \in [S -> S \cup {0}] : \A p \in S : par[p] < p}

(* Process::exe, cmd and name: a process is seen with another executable   *)
(* in every snapshot (it has called exec in between)                        *)
ProcessExe(tick) == IF tick % 2 = 1 THEN <<"/", "s", "h">> ELSE <<>>
ProcessCmd(tick) == IF tick % 2 = 1 THEN <<>> ELSE <<<<"/", "v", "i", ":", " ", "x">>>>
ProcessName(tick) == IF tick % 2 = 1 THEN <<"s", "h">> ELSE <<"v", "i">>

(* App::name and Service::name: the record is renamed between snapshots *)
AppName(id, tick) == <<id, to_string(tick)>>
ServiceName(id, tick) == <<"s", to_string(id), to_string(tick)>>

TableOf(S, par, tick) ==
    [p \in S |-> [pid |-> p,
                  children |-> {q \in S : par[q] = p},
                  usage_stats |-> Usage(p, tick),
                  exe |-> ProcessExe(tick),
                  cmd |-> ProcessCmd(tick),
                  name |-> ProcessName(tick)]]

ProcessMaps(tick) ==
    UNION {{TableOf(S, par, tick) : par \in ParentMaps(S)} : S \in SUBSET Pids}

(* App.pids: pid lists of bounded length, without repetition, ascending *)
AppPidLists ==
    {s \in UNION {[1..n -> Pids] : n \in 0..MaxAppPids} :
        \A i, j \in 1..Len(s) : i < j => s[i] < s[j]}

(* The apps of one snapshot own disjoint sets of pids *)
AppMaps ==
    {am \in UNION {[S -> [pids : AppPidLists]] : S \in SUBSET AppIds} :
        \A a, b \in DOMAIN am : a # b => Range(am[a].pids) \cap Range(am[b].pids) = {}}

(* Service records: the owning pid is None or Some(pid); running, enabled    *)
(* and failed are independent flags                                          *)
ServiceStates ==
    {[running |-> TRUE, enabled |-> TRUE, failed |-> FALSE]}

(* The main process of a service is never pid 1 *)
ServicePids == {<<>>} \cup {<<p>> : p \in Pids \ {1}}

ServicesOver(ids) ==
    {sm \in UNION {[S -> [id : ids, pid : ServicePids, running : BOOLEAN,
                          enabled : BOOLEAN, failed : BOOLEAN]] : S \in SUBSET ids} :
        \A id \in DOMAIN sm :
            /\ sm[id].id = id
            /\ [running |-> sm[id].running, enabled |-> sm[id].enabled,
                failed |-> sm[id].failed] \in ServiceStates}

----------------------------------------------------------------------------
(* RowModel objects *)

FirstSectionRef == 1    \* AppsPage.apps_section / ServicesPage.user_section
SecondSectionRef == 2   \* AppsPage.processes_section / ServicesPage.system_section

(* RowModelBuilder::build *)
RowModelBuilder(content_type, section_type, id, pid, service_id) ==
    [content_type |-> content_type,
     section_type |-> section_type,
     id |-> id,
     name |-> <<>>,
     pid |-> pid,
     service_id |-> service_id,
     usage_stats |-> 0,
     service_running |-> FALSE,
     service_enabled |-> FALSE,
     service_failed |-> FALSE,
     service_stopped |-> FALSE,
     children |-> <<>>]

(* RowModelBuilder::name *)
with_name(row_model, name) == [row_model EXCEPT !.name = name]

FreshRef(h) == Min({r \in 1..(Cardinality(DOMAIN h) + 1) : r \notin DOMAIN h})

(* The object a builder returns takes the least free reference *)
Allocate(h, node) == (FreshRef(h) :> node) @@ h

(* Variant of append that puts the object at the head of the list *)
append_front(h, owner, ref) == [h EXCEPT ![owner].children = <<ref>> \o @]

(* Variant of append that also writes the new length into the owner's stats *)
append_and_count(h, owner, ref) ==
    [h EXCEPT ![owner].children = Append(@, ref),
              ![owner].usage_stats = Len(h[owner].children) + 1]

(* gio::ListStore::append on the children of a node *)
append(h, owner, ref) == [h EXCEPT ![owner].children = Append(@, ref)]

ChildPids(h, owner) == {h[h[owner].children[i]].pid : i \in 1..Len(h[owner].children)}

RECURSIVE Reachable(_, _)
Reachable(h, frontier) ==
    LET next == frontier \cup UNION {Range(h[r].children) : r \in frontier}
    IN IF next = frontier THEN frontier ELSE Reachable(h, next)

(* Objects no list references any more are released (reference counting) *)
Collect(h) == [r \in Reachable(h, {FirstSectionRef, SecondSectionRef}) |-> h[r]]

----------------------------------------------------------------------------
(* table_view/models.rs *)

(* Process::merged_usage_stats (magpie_types): the process's own stats plus *)
(* the merged stats of every child found in the process table               *)
RECURSIVE merged_usage_stats(_, _)
merged_usage_stats(process, process_map) ==
    LET found == process.children \cap DOMAIN process_map
    IN merge(process.usage_stats,
             SumOver(found, [c \in found |-> merged_usage_stats(process_map[c], process_map)]))

set_stats(h, ref, usage_stats) == [h EXCEPT ![ref].usage_stats = usage_stats]

(* Variant of remove_all that leaves the list as it is *)
remove_all_skipped(h, ref) == h

(* gio::ListStore::remove_all on the children of a node *)
remove_all(h, ref) == [h EXCEPT ![ref].children = <<>>]

(* Variant of set_service that calls every service stopped that is not running *)
set_service_stopped_unless_running(h, ref, service) ==
    [h EXCEPT ![ref].service_running = service.running,
              ![ref].service_enabled = service.enabled,
              ![ref].service_failed = service.failed,
              ![ref].service_stopped = ~service.running]

set_service(h, ref, service) ==
    [h EXCEPT ![ref].service_running = service.running,
              ![ref].service_enabled = service.enabled,
              ![ref].service_failed = service.failed,
              ![ref].service_stopped =
                  (~service.running) /\ (~service.failed) /\ service.enabled]

(* Variant of primary_fallback without the break: every qualifying pid is kept *)
RECURSIVE primary_fallback_no_break(_, _, _)
primary_fallback_no_break(pids, process_map, index) ==
    IF index > Len(pids) THEN {}
    ELSE (IF /\ pids[index] \in DOMAIN process_map
             /\ \/ process_map[pids[index]].children # {}
                \/ index = Len(pids)
          THEN {pids[index]}
          ELSE {})
         \cup primary_fallback_no_break(pids, process_map, index + 1)

(* The scan of the fallback branch: the first pid, in list order, that is in *)
(* the process table and has children or stands last                        *)
RECURSIVE primary_fallback(_, _, _)
primary_fallback(pids, process_map, index) ==
    IF index > Len(pids) THEN {}
    ELSE IF /\ pids[index] \in DOMAIN process_map
            /\ \/ process_map[pids[index]].children # {}
               \/ index = Len(pids)
         THEN {pids[index]}
         ELSE primary_fallback(pids, process_map, index + 1)

(* Variant of secondary_processes that looks at the first app pid only *)
secondary_processes_first_only(app, process_map, index) ==
    IF index > Len(app.pids) \/ index > 1 THEN {}
    ELSE IF app.pids[index] \in DOMAIN process_map
         THEN {child \in process_map[app.pids[index]].children : child \in Range(app.pids)}
         ELSE {}

(* The first loop: the children of every app pid found in the table that are *)
(* themselves app pids                                                       *)
RECURSIVE secondary_processes(_, _, _)
secondary_processes(app, process_map, index) ==
    IF index > Len(app.pids) THEN {}
    ELSE (IF app.pids[index] \in DOMAIN process_map
          THEN {child \in process_map[app.pids[index]].children :
                    child \in Range(app.pids)}
          ELSE {})
         \cup secondary_processes(app, process_map, index + 1)

(* Variant of primary_processes without the fallback scan *)
primary_processes_without_fallback(app, process_map) ==
    LET secondary == secondary_processes(app, process_map, 1)
    IN {pid \in Range(app.pids) : pid \notin secondary}

primary_processes(app, process_map) ==
    LET secondary == secondary_processes(app, process_map, 1)
        primary == {pid \in Range(app.pids) : pid \notin secondary}
    IN IF primary = {} THEN primary_fallback(app.pids, process_map, 1) ELSE primary

(* Variant of update_process_stats that never merges *)
update_process_stats_raw(process, process_map, use_merged) == process.usage_stats

(* update_process: the stats written to a process node *)
update_process_stats(process, process_map, use_merged) ==
    IF use_merged THEN merged_usage_stats(process, process_map) ELSE process.usage_stats

(* Variant of does_exist_processes that does not look the pid up in the     *)
(* process table                                                            *)
does_exist_processes_unchecked(h, list, pids, process_map) ==
    {pid \in {h[list[i]].pid : i \in 1..Len(list)} : pid \in pids}

(* update_processes, does_exist: the pids of the listed nodes that are asked *)
(* for and found in the process table                                       *)
does_exist_processes(h, list, pids, process_map) ==
    {pid \in {h[list[i]].pid : i \in 1..Len(list)} :
        pid \in pids /\ pid \in DOMAIN process_map}

(* Variant of fresh_keys that builds a node for every incoming key *)
fresh_keys_all(incoming, does_exist) == incoming

(* update_apps / update_services: the incoming keys no listed node holds *)
fresh_keys(incoming, does_exist) == incoming \ does_exist

WinePrefix == <<"w", "i", "n", "e">>

(* Variant of pretty_name that takes the basename of the path as it is *)
pretty_name_untrimmed_basename(process) ==
    IF process.exe = <<>>
    THEN IF process.cmd # <<>>
         THEN LET word == first_word(process.cmd[1])
                  cmd == IF word = <<>> THEN process.name ELSE Last(Split(word[1], "/"))
              IN trim(strip_colon(cmd))
         ELSE trim(process.name)
    ELSE LET exe_name == Last(Split(process.exe, "/"))
         IN IF IsPrefix(WinePrefix, exe_name)
            THEN IF process.cmd = <<>> THEN trim(process.name)
                 ELSE trim(Last(Split(Last(Split(process.cmd[1], "\\")), "/")))
            ELSE exe_name

(* update_processes, pretty_name: the display name of a process seen for    *)
(* the first time                                                           *)
pretty_name(process) ==
    IF process.exe = <<>>
    THEN IF process.cmd # <<>>
         THEN LET word == first_word(process.cmd[1])
                  cmd == IF word = <<>> THEN process.name ELSE Last(Split(word[1], "/"))
              IN trim(strip_colon(cmd))
         ELSE trim(process.name)
    ELSE LET exe_name == Last(Split(process.exe, "/"))
         IN IF IsPrefix(WinePrefix, exe_name)
            THEN IF process.cmd = <<>> THEN trim(process.name)
                 ELSE trim(Last(Split(Last(Split(process.cmd[1], "\\")), "/")))
            ELSE trim(exe_name)

RECURSIVE update_processes(_, _, _, _, _, _, _)
RECURSIVE update_process(_, _, _, _, _, _, _)
RECURSIVE update_surviving_processes(_, _, _, _, _, _, _, _)
RECURSIVE append_new_processes(_, _, _, _, _, _, _, _)

(* st = [heap, model_map]; parent_service is <<>> (None) or <<service>> *)
update_process(st, process_map, process, ref, use_merged, seed, parent_service) ==
    LET usage_stats == update_process_stats(process, process_map, use_merged)
        h1 == set_stats(st.heap, ref, usage_stats)
        h2 == IF parent_service # <<>> THEN set_service(h1, ref, parent_service[1]) ELSE h1
        st2 == update_processes([st EXCEPT !.heap = h2], process_map, process.children,
                                ref, use_merged, seed, parent_service)
    IN [st2 EXCEPT !.model_map = (process.pid :> ref) @@ st2.model_map]

(* The first loop of update_processes: every listed node whose pid is asked *)
(* for and found is updated in place                                        *)
update_surviving_processes(st, process_map, pids, list, index, use_merged, seed, parent_service) ==
    IF index > Len(list) THEN st
    ELSE LET pid == st.heap[list[index]].pid
             st2 == IF pid \in pids /\ pid \in DOMAIN process_map
                    THEN update_process(st, process_map, process_map[pid], list[index],
                                        use_merged, seed, parent_service)
                    ELSE st
         IN update_surviving_processes(st2, process_map, pids, list, index + 1,
                                       use_merged, seed, parent_service)

(* The last loop of update_processes: a node is built, appended and updated *)
(* for every pid asked for, found and not yet listed                        *)
append_new_processes(st, process_map, fresh, index, owner, use_merged, seed, parent_service) ==
    IF index > Len(fresh) THEN st
    ELSE LET process == process_map[fresh[index]]
             ref == FreshRef(st.heap)
             row_model == with_name(RowModelBuilder("Process", st.heap[owner].section_type,
                                                    to_string(process.pid), process.pid, 0),
                                    pretty_name(process))
             h1 == Allocate(st.heap, row_model)
             h2 == append(h1, owner, ref)
             st2 == update_process([st EXCEPT !.heap = h2], process_map, process, ref,
                                   use_merged, seed, parent_service)
         IN append_new_processes(st2, process_map, fresh, index + 1, owner,
                                 use_merged, seed, parent_service)

update_processes(st, process_map, pids, owner, use_merged, seed, parent_service) ==
    LET list == st.heap[owner].children
        listed == {st.heap[list[i]].pid : i \in 1..Len(list)}
        does_exist == does_exist_processes(st.heap, list, pids, process_map)
        has_died == listed \ does_exist
        st1 == update_surviving_processes(st, process_map, pids, list, 1, use_merged,
                                          seed, parent_service)
        retained == SelectSeq(list, LAMBDA r : st1.heap[r].pid \notin has_died)
        st2 == [st1 EXCEPT !.heap[owner].children = retained]
        fresh == HashIter((pids \ does_exist) \cap DOMAIN process_map, PidRank, seed)
    IN append_new_processes(st2, process_map, fresh, 1, owner, use_merged, seed,
                            parent_service)

(* st = [heap, diagnostics]; process_model_map: pid -> reference *)
RECURSIVE append_primary_processes(_, _, _, _, _, _)
append_primary_processes(h, owner, primary, index, does_exist, process_model_map) ==
    IF index > Len(primary) THEN h
    ELSE LET pid == primary[index]
             h2 == IF pid \notin does_exist /\ pid \in DOMAIN process_model_map
                   THEN append(h, owner, process_model_map[pid])
                   ELSE h
         IN append_primary_processes(h2, owner, primary, index + 1, does_exist,
                                     process_model_map)

update_app(st, app_id, app, process_map, process_model_map, ref, seed) ==
    LET primary == primary_processes(app, process_map)
        list == st.heap[ref].children
    IN IF primary = {}
       THEN [heap |-> remove_all(st.heap, ref),
             diagnostics |-> st.diagnostics \cup {app_id}]
       ELSE LET listed == {st.heap[list[i]].pid : i \in 1..Len(list)}
                does_exist == listed \cap primary
                has_died == listed \ primary
                retained == SelectSeq(list, LAMBDA r : st.heap[r].pid \notin has_died)
                h1 == [st.heap EXCEPT ![ref].children = retained]
                found == primary \cap DOMAIN process_map
                usage_stats ==
                    SumOver(found, [pid \in found |->
                                        merged_usage_stats(process_map[pid], process_map)])
                h2 == append_primary_processes(h1, ref, HashIter(found, PidRank, seed), 1,
                                               does_exist, process_model_map)
            IN [st EXCEPT !.heap = set_stats(h2, ref, usage_stats)]

RECURSIVE update_surviving_apps(_, _, _, _, _, _, _)
update_surviving_apps(st, app_map, process_map, process_model_map, list, index, seed) ==
    IF index > Len(list) THEN st
    ELSE LET app_id == st.heap[list[index]].id
             st2 == IF app_id \in DOMAIN app_map
                    THEN update_app(st, app_id, app_map[app_id], process_map,
                                    process_model_map, list[index], seed)
                    ELSE st
         IN update_surviving_apps(st2, app_map, process_map, process_model_map, list,
                                  index + 1, seed)

RECURSIVE append_new_apps(_, _, _, _, _, _, _, _)
append_new_apps(st, app_map, process_map, process_model_map, fresh, index, owner, seed) ==
    IF index > Len(fresh) THEN st
    ELSE LET app_id == fresh[index]
             ref == FreshRef(st.heap)
             row_model == with_name(RowModelBuilder("App", "FirstSection", app_id, 0, 0),
                                    app_map[app_id].name)
             h1 == Allocate(st.heap, row_model)
             h2 == append(h1, owner, ref)
             st2 == update_app([st EXCEPT !.heap = h2], app_id, app_map[app_id],
                               process_map, process_model_map, ref, seed)
         IN append_new_apps(st2, app_map, process_map, process_model_map, fresh,
                            index + 1, owner, seed)

update_apps(st, app_map, process_map, process_model_map, owner, seed) ==
    LET list == st.heap[owner].children
        listed == {st.heap[list[i]].id : i \in 1..Len(list)}
        does_exist == listed \cap DOMAIN app_map
        has_died == listed \ DOMAIN app_map
        st1 == update_surviving_apps(st, app_map, process_map, process_model_map, list, 1,
                                     seed)
        retained == SelectSeq(list, LAMBDA r : st1.heap[r].id \notin has_died)
        st2 == [st1 EXCEPT !.heap[owner].children = retained]
        fresh == HashIter(fresh_keys(DOMAIN app_map, does_exist), AppRank, seed)
    IN append_new_apps(st2, app_map, process_map, process_model_map, fresh, 1, owner, seed)

(* Variant of update_service that writes the pid into the node's id as well *)
update_service_rewrites_id(h, process_map, ref, service, use_merged, seed) ==
    LET h1 == set_service(h, ref, service)
        h2 == [h1 EXCEPT ![ref].pid = IF service.pid = <<>> THEN 0 ELSE service.pid[1],
                         ![ref].id = IF service.pid = <<>> THEN @ ELSE to_string(service.pid[1])]
    IN IF service.pid = <<>>
       THEN remove_all(h2, ref)
       ELSE LET pid == service.pid[1]
                h3 == IF pid \in DOMAIN process_map
                      THEN set_stats(h2, ref,
                                     merged_usage_stats(process_map[pid], process_map))
                      ELSE h2
                retained == SelectSeq(h3[ref].children, LAMBDA r : h3[r].pid = pid)
                h4 == [h3 EXCEPT ![ref].children = retained]
            IN update_processes([heap |-> h4, model_map |-> <<>>], process_map, {pid},
                                ref, use_merged, seed, <<service>>).heap

(* Variant of update_service that hands no parent service down to the     *)
(* process nodes                                                            *)
update_service_without_parent_service(h, process_map, ref, service, use_merged, seed) ==
    LET h1 == set_service(h, ref, service)
        h2 == [h1 EXCEPT ![ref].pid = IF service.pid = <<>> THEN 0 ELSE service.pid[1]]
    IN IF service.pid = <<>>
       THEN remove_all(h2, ref)
       ELSE LET pid == service.pid[1]
                h3 == IF pid \in DOMAIN process_map
                      THEN set_stats(h2, ref,
                                     merged_usage_stats(process_map[pid], process_map))
                      ELSE h2
                retained == SelectSeq(h3[ref].children, LAMBDA r : h3[r].pid = pid)
                h4 == [h3 EXCEPT ![ref].children = retained]
            IN update_processes([heap |-> h4, model_map |-> <<>>], process_map, {pid},
                                ref, use_merged, seed, <<>>).heap

(* Variant of update_service that clears the stats when the process of the  *)
(* service is not in the table                                              *)
update_service_clears_stats(h, process_map, ref, service, use_merged, seed) ==
    LET h1 == set_service(h, ref, service)
        h2 == [h1 EXCEPT ![ref].pid = IF service.pid = <<>> THEN 0 ELSE service.pid[1]]
    IN IF service.pid = <<>>
       THEN remove_all(h2, ref)
       ELSE LET pid == service.pid[1]
                h3 == IF pid \in DOMAIN process_map
                      THEN set_stats(h2, ref,
                                     merged_usage_stats(process_map[pid], process_map))
                      ELSE set_stats(h2, ref, 0)
                retained == SelectSeq(h3[ref].children, LAMBDA r : h3[r].pid = pid)
                h4 == [h3 EXCEPT ![ref].children = retained]
            IN update_processes([heap |-> h4, model_map |-> <<>>], process_map, {pid},
                                ref, use_merged, seed, <<service>>).heap

(* service.pid is <<>> (None) or <<pid>> (Some) *)
update_service(h, process_map, ref, service, use_merged, seed) ==
    LET h1 == set_service(h, ref, service)
        h2 == [h1 EXCEPT ![ref].pid = IF service.pid = <<>> THEN 0 ELSE service.pid[1]]
    IN IF service.pid = <<>>
       THEN remove_all(h2, ref)
       ELSE LET pid == service.pid[1]
                h3 == IF pid \in DOMAIN process_map
                      THEN set_stats(h2, ref,
                                     merged_usage_stats(process_map[pid], process_map))
                      ELSE h2
                retained == SelectSeq(h3[ref].children, LAMBDA r : h3[r].pid = pid)
                h4 == [h3 EXCEPT ![ref].children = retained]
            IN update_processes([heap |-> h4, model_map |-> <<>>], process_map, {pid},
                                ref, use_merged, seed, <<service>>).heap

RECURSIVE update_surviving_services(_, _, _, _, _, _, _)
update_surviving_services(h, process_map, services, list, index, use_merged, seed) ==
    IF index > Len(list) THEN h
    ELSE LET service_id == h[list[index]].service_id
             h2 == IF service_id \in DOMAIN services
                   THEN update_service(h, process_map, list[index], services[service_id],
                                       use_merged, seed)
                   ELSE h
         IN update_surviving_services(h2, process_map, services, list, index + 1,
                                      use_merged, seed)

RECURSIVE append_new_services(_, _, _, _, _, _, _, _)
append_new_services(h, process_map, services, fresh, index, owner, use_merged, seed) ==
    IF index > Len(fresh) THEN h
    ELSE LET service == services[fresh[index]]
             ref == FreshRef(h)
             row_model == with_name(RowModelBuilder("Service", h[owner].section_type,
                                                    to_string(service.id), 0, service.id),
                                    service.name)
             h1 == Allocate(h, row_model)
             h2 == append(h1, owner, ref)
             h3 == update_service(h2, process_map, ref, service, use_merged, seed)
         IN append_new_services(h3, process_map, services, fresh, index + 1, owner,
                                use_merged, seed)

update_services(h, process_map, services, owner, use_merged, seed) ==
    LET list == h[owner].children
        listed == {h[list[i]].service_id : i \in 1..Len(list)}
        does_exist == listed \cap DOMAIN services
        has_died == listed \ DOMAIN services
        h1 == update_surviving_services(h, process_map, services, list, 1, use_merged, seed)
        retained == SelectSeq(list, LAMBDA r : h1[r].service_id \notin has_died)
        h2 == [h1 EXCEPT ![owner].children = retained]
        fresh == HashIter(fresh_keys({services[k].id : k \in DOMAIN services}, does_exist),
                          ServiceRank, seed)
    IN append_new_services(h2, process_map, services, fresh, 1, owner, use_merged, seed)

----------------------------------------------------------------------------
(* apps_page/mod.rs *)

(* AppsPage::update_common: the process pass under the root (least) pid,    *)
(* skipped when that pid is not in the table, then the app pass             *)
AppsPage_update_common(h, r, use_merged, seed) ==
    LET pm == r.running_processes
        root_process == IF DOMAIN pm = {} THEN 1 ELSE Min(DOMAIN pm)
        st0 == [heap |-> h, model_map |-> <<>>]
        st1 == IF root_process \in DOMAIN pm
               THEN update_processes(st0, pm, pm[root_process].children, SecondSectionRef,
                                     use_merged, seed, <<>>)
               ELSE st0
    IN update_apps([heap |-> st1.heap, diagnostics |-> {}], r.running_apps, pm,
                   st1.model_map, FirstSectionRef, seed)

----------------------------------------------------------------------------
(* services_page/mod.rs *)

(* ServicesPage::set_initial_readings: the widgets of the toggle group in   *)
(* the order they are handed to setup, by widget name                       *)
ToggleNames == <<"toggle_running", "toggle_failed", "toggle_stopped", "toggle_disabled">>

(* gtk::ToggleButton::is_active of a toggle of the page; group is <<>>      *)
(* while no view is set up: no toggle has been clicked                      *)
is_active(group, name) ==
    \E i \in 1..Len(group) : ToggleNames[i] = name /\ group[i]

(* ServicesPage::default: the counters are 0, h2 has the text of the template *)
DefaultHeaders ==
    [total_services |-> 0, running_services |-> 0, failed_services |-> 0,
     stopped_services |-> 0, disabled_services |-> 0, h2 |-> <<>>]

(* ServicesPage::update_common, the counters: every service of the two maps *)
(* counts in the first of running, failed, stopped, disabled that fits      *)
count_services(r) ==
    LET user == {<<"user", k>> : k \in DOMAIN r.user_services}
        system == {<<"system", k>> : k \in DOMAIN r.system_services}
        service(s) == IF s[1] = "user" THEN r.user_services[s[2]]
                      ELSE r.system_services[s[2]]
        services == user \cup system
    IN [total_services |-> Cardinality(services),
        running_services |-> Cardinality({s \in services : service(s).running}),
        failed_services |->
            Cardinality({s \in services : ~service(s).running /\ service(s).failed}),
        stopped_services |->
            Cardinality({s \in services : /\ ~service(s).running
                                          /\ ~service(s).failed
                                          /\ service(s).enabled}),
        disabled_services |->
            Cardinality({s \in services : /\ ~service(s).running
                                          /\ ~service(s).failed
                                          /\ ~service(s).enabled})]

(* ServicesPage::update_headers: h2 is one of the two fixed texts or the    *)
(* pair of the number and the list of the active categories                 *)
update_headers(counts, group) ==
    LET running == is_active(group, "toggle_running")
        failed == is_active(group, "toggle_failed")
        stopped == is_active(group, "toggle_stopped")
        disabled == is_active(group, "toggle_disabled")
        any_active == running \/ failed \/ stopped \/ disabled
        filtered == (IF running THEN counts.running_services ELSE 0)
                    + (IF failed THEN counts.failed_services ELSE 0)
                    + (IF stopped THEN counts.stopped_services ELSE 0)
                    + (IF disabled THEN counts.disabled_services ELSE 0)
        types == (IF running THEN <<"Running">> ELSE <<>>)
                 \o (IF failed THEN <<"Failed">> ELSE <<>>)
                 \o (IF stopped THEN <<"Stopped">> ELSE <<>>)
                 \o (IF disabled THEN <<"Disabled">> ELSE <<>>)
    IN [total_services |-> counts.total_services,
        running_services |-> counts.running_services,
        failed_services |-> counts.failed_services,
        stopped_services |-> counts.stopped_services,
        disabled_services |-> counts.disabled_services,
        h2 |-> IF filtered = 0
               THEN (IF any_active THEN <<"No services match the current filters">>
                     ELSE <<"No filters applied">>)
               ELSE <<filtered, types>>]

(* ServicesPage::update_common: the user services, then the system services *)
ServicesPage_update_common(h, r, use_merged, seed) ==
    LET h1 == update_services(h, r.running_processes, r.user_services, FirstSectionRef,
                              use_merged, seed)
    IN update_services(h1, r.running_processes, r.system_services, SecondSectionRef,
                       use_merged, seed)

----------------------------------------------------------------------------
(* The page as a state machine *)

NoReadings ==
    [running_processes |-> <<>>, running_apps |-> <<>>,
     user_services |-> <<>>, system_services |-> <<>>]

(* The snapshots of refresh cycle number `tick`: every process's stats differ *)
(* from those of the cycle before                                            *)
AppsAt(am, tick) ==
    [a \in DOMAIN am |-> [id |-> a, name |-> AppName(a, tick), pids |-> am[a].pids]]

ServicesAt(sm, tick) ==
    [k \in DOMAIN sm |-> [id |-> sm[k].id, name |-> ServiceName(sm[k].id, tick),
                          pid |-> sm[k].pid, running |-> sm[k].running,
                          enabled |-> sm[k].enabled, failed |-> sm[k].failed]]

AppsReadings(tick) ==
    {[running_processes |-> pm, running_apps |-> AppsAt(am, tick),
      user_services |-> <<>>, system_services |-> <<>>] :
        pm \in ProcessMaps(tick), am \in AppMaps}

ServiceMapPairs ==
    {pair \in ServicesOver(UserServiceIds) \X ServicesOver(SystemServiceIds) :
        Cardinality(DOMAIN pair[1]) + Cardinality(DOMAIN pair[2]) <= MaxServices}

ServicesReadings(tick) ==
    {[running_processes |-> pm, running_apps |-> <<>>,
      user_services |-> ServicesAt(pair[1], tick),
      system_services |-> ServicesAt(pair[2], tick)] :
        pm \in ProcessMaps(tick), pair \in ServiceMapPairs}

(* No refresh cycle is being stepped through, the filter has not been asked *)
NoCycleCall ==
    /\ call_stack = <<>>
    /\ outcome = "idle"

NoSearch ==
    /\ search_button = FALSE
    /\ header_search_entry = <<>>
    /\ filter_item = [content_type |-> "SectionHeader", name |-> <<>>, pid |-> 0]
    /\ search_result = <<>>
    /\ previous_search = <<>>

(* No view is set up: no toggle group, no rows, nothing stored *)
NoView ==
    /\ toggle_group = <<>>
    /\ filter_list_model = <<>>
    /\ view_log = <<>>
    /\ headers = DefaultHeaders

NoSettings ==
    /\ settings = <<>>
    /\ column_view = [columns |-> <<>>, sorter |-> <<>>]
    /\ phase = "new"
    /\ column_titles = <<>>

(* Nothing selected (TableView::default: the empty placeholder RowModel),   *)
(* no action activated                                                      *)
NoAction ==
    /\ selected_item = 0
    /\ dispatched = <<>>
    /\ stoppable_result = <<>>
    /\ action_enabled = <<>>

(* AppsPage::default / ServicesPage::default: the two section headers *)
InitHeap ==
    (FirstSectionRef :> RowModelBuilder("SectionHeader", "FirstSection", "", 0, 0))
    @@ (SecondSectionRef :> RowModelBuilder("SectionHeader", "SecondSection", "", 0, 0))

InitPage ==
    /\ heap = InitHeap
    /\ readings = NoReadings
    /\ diagnostics = {}
    /\ use_merged_stats = FALSE
    /\ cycle = 0
    /\ before = [heap |-> InitHeap, readings |-> NoReadings, use_merged_stats |-> FALSE]

Init ==
    /\ settings_namespace \in {"AppsPage", "ServicesPage"}
    /\ InitPage
    /\ app_arg = [pids |-> <<>>]
    /\ process_map_arg = <<>>
    /\ primary_result = <<>>
    /\ NoAction
    /\ NoCycleCall
    /\ NoView
    /\ NoSettings
    /\ NoSearch

(* One refresh cycle of the apps page on a snapshot out of `snapshots` *)
AppsPage_refresh(snapshots) ==
    /\ settings_namespace = "AppsPage"
    /\ cycle < MaxCycles
    /\ \E r \in snapshots, seed \in Seeds :
          LET st == AppsPage_update_common(heap, r, use_merged_stats, seed)
          IN /\ heap' = Collect(st.heap)
             /\ diagnostics' = st.diagnostics
             /\ readings' = r
    /\ cycle' = cycle + 1
    /\ before' = [heap |-> heap, readings |-> readings,
                  use_merged_stats |-> use_merged_stats]
    /\ UNCHANGED <<settings_namespace, use_merged_stats>>
    /\ UNCHANGED resolverVars
    /\ UNCHANGED actionVars
    /\ UNCHANGED restVars

(* One refresh cycle of the services page on a snapshot out of `snapshots` *)
ServicesPage_refresh(snapshots) ==
    /\ settings_namespace = "ServicesPage"
    /\ cycle < MaxCycles
    /\ \E r \in snapshots, seed \in Seeds :
          /\ heap' = Collect(ServicesPage_update_common(heap, r, use_merged_stats, seed))
          /\ readings' = r
          /\ headers' = update_headers(count_services(r), toggle_group)
    /\ cycle' = cycle + 1
    /\ before' = [heap |-> heap, readings |-> readings,
                  use_merged_stats |-> use_merged_stats]
    /\ UNCHANGED <<settings_namespace, use_merged_stats, diagnostics>>
    /\ UNCHANGED resolverVars
    /\ UNCHANGED actionVars
    /\ UNCHANGED <<recursionVars, filterVars, settingsVars>>
    /\ UNCHANGED <<toggle_group, filter_list_model, view_log>>

(* AppsPage::set_initial_readings / update_readings *)
AppsPage_update_readings == AppsPage_refresh(AppsReadings(cycle + 1))

(* ServicesPage::set_initial_readings / update_readings *)
ServicesPage_update_readings == ServicesPage_refresh(ServicesReadings(cycle + 1))

Next ==
    \/ AppsPage_update_readings
    \/ ServicesPage_update_readings

Spec == Init /\ [][Next]_vars

----------------------------------------------------------------------------
(* The pages under either stats mode: one app or one user service, whose    *)
(* process may be any pid of the table, and the merge setting changing      *)
(* between cycles                                                           *)

StatsAppsReadings(tick) ==
    {r \in AppsReadings(tick) : DOMAIN r.running_apps \subseteq {"a"}}

StatsServiceId == Min(UserServiceIds)

StatsServiceMaps(tick) ==
    {<<>>} \cup
    {ServicesAt((StatsServiceId :> [id |-> StatsServiceId, pid |-> pid, running |-> TRUE,
                                     enabled |-> TRUE, failed |-> FALSE]), tick) :
        pid \in {<<>>} \cup {<<p>> : p \in Pids}}

StatsServicesReadings(tick) ==
    {[running_processes |-> pm, running_apps |-> <<>>,
      user_services |-> sm, system_services |-> <<>>] :
        pm \in ProcessMaps(tick), sm \in StatsServiceMaps(tick)}

InitStats ==
    /\ settings_namespace \in {"AppsPage", "ServicesPage"}
    /\ heap = InitHeap
    /\ readings = NoReadings
    /\ diagnostics = {}
    /\ use_merged_stats \in BOOLEAN
    /\ cycle = 0
    /\ before = [heap |-> InitHeap, readings |-> NoReadings, use_merged_stats |-> FALSE]
    /\ app_arg = [pids |-> <<>>]
    /\ process_map_arg = <<>>
    /\ primary_result = <<>>
    /\ NoAction
    /\ NoCycleCall
    /\ NoView
    /\ NoSettings
    /\ NoSearch

(* TableView::set_use_merged_stats, on a change of the setting *)
set_use_merged_stats ==
    /\ cycle < MaxCycles
    /\ \E use_merged \in BOOLEAN : use_merged_stats' = use_merged
    /\ UNCHANGED <<settings_namespace, heap, readings, diagnostics, cycle, before>>
    /\ UNCHANGED resolverVars
    /\ UNCHANGED actionVars
    /\ UNCHANGED restVars

AppsPage_update_readings_stats == AppsPage_refresh(StatsAppsReadings(cycle + 1))

ServicesPage_update_readings_stats == ServicesPage_refresh(StatsServicesReadings(cycle + 1))

NextStats ==
    \/ AppsPage_update_readings_stats
    \/ ServicesPage_update_readings_stats
    \/ set_use_merged_stats

SpecStats == InitStats /\ [][NextStats]_vars

----------------------------------------------------------------------------
(* The services page over one user service in any of its states: the three *)
(* flags take every combination, the owning pid is none, 2 or 3, and the    *)
(* process table under the root pid 1 holds any forest of the pids 2 and 3  *)

TheServiceId == Min(UserServiceIds)

TheServicePids == {<<>>} \cup {<<p>> : p \in Pids \ {1}}

TheServiceMaps(tick) ==
    {<<>>} \cup
    {ServicesAt((TheServiceId :> [id |-> TheServiceId, pid |-> pid, running |-> running,
                                   enabled |-> enabled, failed |-> failed]), tick) :
        pid \in TheServicePids, running \in BOOLEAN, enabled \in BOOLEAN,
        failed \in BOOLEAN}

TheServiceReadings(tick) ==
    {[running_processes |-> pm, running_apps |-> <<>>,
      user_services |-> sm, system_services |-> <<>>] :
        pm \in {t \in ProcessMaps(tick) : 1 \in DOMAIN t},
        sm \in TheServiceMaps(tick)}

InitServices ==
    /\ settings_namespace = "ServicesPage"
    /\ heap = InitHeap
    /\ readings = NoReadings
    /\ diagnostics = {}
    /\ use_merged_stats \in BOOLEAN
    /\ cycle = 0
    /\ before = [heap |-> InitHeap, readings |-> NoReadings, use_merged_stats |-> FALSE]
    /\ app_arg = [pids |-> <<>>]
    /\ process_map_arg = <<>>
    /\ primary_result = <<>>
    /\ NoAction
    /\ NoCycleCall
    /\ NoView
    /\ NoSettings
    /\ NoSearch

ServicesPage_update_readings_services ==
    ServicesPage_refresh(TheServiceReadings(cycle + 1))

NextServices == ServicesPage_update_readings_services

SpecServices == InitServices /\ [][NextServices]_vars

----------------------------------------------------------------------------
(* table_view/mod.rs: the column titles. The snapshot's system part is      *)
(* cpu.total_usage_percent, mem_info, disks_info (the busy percentages) and *)
(* gpus (utilization_percent, used_memory, total_memory, each None or       *)
(* Some); the quantities are whole numbers small enough to be exact in f32. *)

(* An f32 quotient of two non-negative numbers: finite, +infinity (x / 0,   *)
(* x > 0) or NaN (0 / 0)                                                    *)
f32_div(n, d) ==
    IF d # 0 THEN [kind |-> "finite", n |-> n, d |-> d]
    ELSE IF n = 0 THEN [kind |-> "nan", n |-> n, d |-> d]
    ELSE [kind |-> "inf", n |-> n, d |-> d]

(* f32::round (half away from zero), `as u32` (saturating, NaN gives 0),   *)
(* and the `{}` of write!: the decimal text; +infinity gives u32::MAX       *)
round_as_u32(q) ==
    CASE q.kind = "finite" -> to_string(((2 * q.n) + q.d) \div (2 * q.d))
      [] q.kind = "nan" -> "0"
      [] OTHER -> "4294967295"

(* Option::unwrap_or(0) *)
unwrap_or_0(option) == IF option = <<>> THEN 0 ELSE option[1]

(* `sum += x` over the values of a collection, f giving x for every key *)
RECURSIVE sum_f32(_, _)
sum_f32(S, f) ==
    IF S = {} THEN 0
    ELSE LET x == CHOOSE y \in S : TRUE IN f[x] + sum_f32(S \ {x}, f)

(* TableView::update_column_titles: the figure written into each title and  *)
(* the divisor of every division made on the way (<<>> where the branch     *)
(* divides nothing); network_sum is the argument of to_human_readable_nice  *)
update_column_titles(r) ==
    LET mem_total == IF r.mem_info.mem_total > 0 THEN r.mem_info.mem_total ELSE 1
        mem_avail == IF r.mem_info.mem_available > r.mem_info.mem_total
                     THEN r.mem_info.mem_free
                     ELSE r.mem_info.mem_available
        memory_used == IF mem_avail > mem_total THEN 0 ELSE mem_total - mem_avail
        gpu_ids == DOMAIN r.gpus
        sum_util == sum_f32(gpu_ids, [g \in gpu_ids |->
                                          unwrap_or_0(r.gpus[g].utilization_percent)])
        sum_mem_used == sum_f32(gpu_ids, [g \in gpu_ids |-> unwrap_or_0(r.gpus[g].used_memory)])
        sum_mem_total == sum_f32(gpu_ids, [g \in gpu_ids |->
                                               unwrap_or_0(r.gpus[g].total_memory)])
        no_disks == r.disks_info = <<>>
        no_gpus == gpu_ids = {}
    IN [cpu |-> to_string(r.cpu.total_usage_percent),
        memory |-> round_as_u32(f32_div(memory_used * 100, mem_total)),
        memory_divisor |-> <<mem_total>>,
        drive |-> IF no_disks THEN "0"
                  ELSE round_as_u32(f32_div(sum_f32(DOMAIN r.disks_info, r.disks_info),
                                            Len(r.disks_info))),
        drive_divisor |-> IF no_disks THEN <<>> ELSE <<Len(r.disks_info)>>,
        network_sum |-> IF DOMAIN r.running_processes = {} THEN 0
                        ELSE sum_f32(DOMAIN r.running_processes,
                                     [pid \in DOMAIN r.running_processes |->
                                         r.running_processes[pid].usage_stats]),
        gpu |-> IF no_gpus THEN "0"
                ELSE round_as_u32(f32_div(sum_util, Cardinality(gpu_ids))),
        gpu_divisor |-> IF no_gpus THEN <<>> ELSE <<Cardinality(gpu_ids)>>,
        gpu_memory |-> IF no_gpus THEN "0"
                       ELSE round_as_u32(f32_div(sum_mem_used * 100, sum_mem_total)),
        gpu_memory_divisor |-> IF no_gpus THEN <<>> ELSE <<sum_mem_total>>]

(* The system part of a snapshot: total memory 0 or 4 units, the available  *)
(* memory below, at or above the total, no disk or some, no GPU or some, a  *)
(* GPU with or without figures                                              *)
MemInfos ==
    [mem_total : {0, 4}, mem_available : {0, 1, 5}, mem_free : {0, 6}]

DisksInfos == {<<>>, <<50>>, <<0, 100>>}

Gpu(utilization_percent, used_memory, total_memory) ==
    [utilization_percent |-> utilization_percent, used_memory |-> used_memory,
     total_memory |-> total_memory]

GpuMaps ==
    {<<>>,
     <<Gpu(<<50>>, <<1>>, <<2>>)>>,
     <<Gpu(<<>>, <<>>, <<>>)>>,
     <<Gpu(<<0>>, <<0>>, <<0>>)>>,
     <<Gpu(<<50>>, <<1>>, <<0>>)>>,
     <<Gpu(<<51>>, <<1>>, <<2>>), Gpu(<<>>, <<>>, <<>>)>>}

TitleReadings ==
    {[running_processes |-> <<>>, running_apps |-> <<>>,
      user_services |-> <<>>, system_services |-> <<>>,
      cpu |-> [total_usage_percent |-> 37], mem_info |-> mem_info,
      disks_info |-> disks_info, gpus |-> gpus] :
        mem_info \in MemInfos, disks_info \in DisksInfos, gpus \in GpuMaps}

InitTitles ==
    /\ settings_namespace = "AppsPage"
    /\ InitPage
    /\ app_arg = [pids |-> <<>>]
    /\ process_map_arg = <<>>
    /\ primary_result = <<>>
    /\ NoAction
    /\ NoCycleCall
    /\ NoView
    /\ NoSettings
    /\ NoSearch

(* AppsPage::update_common on a snapshot with its system part: the titles   *)
(* are written, then the tree is brought up to date. (The snapshots of the  *)
(* other specifications carry no system part, and their cycles leave        *)
(* column_titles alone.)                                                    *)
AppsPage_update_readings_titles ==
    /\ settings_namespace = "AppsPage"
    /\ cycle < MaxCycles
    /\ \E r \in TitleReadings, seed \in Seeds :
          LET st == AppsPage_update_common(heap, r, use_merged_stats, seed)
          IN /\ column_titles' = update_column_titles(r)
             /\ heap' = Collect(st.heap)
             /\ diagnostics' = st.diagnostics
             /\ readings' = r
    /\ cycle' = cycle + 1
    /\ before' = [heap |-> heap, readings |-> readings,
                  use_merged_stats |-> use_merged_stats]
    /\ UNCHANGED <<settings_namespace, use_merged_stats>>
    /\ UNCHANGED <<resolverVars, actionVars, recursionVars, filterVars, viewVars>>
    /\ UNCHANGED <<settings, column_view, phase>>

NextTitles == AppsPage_update_readings_titles

SpecTitles == InitTitles /\ [][NextTitles]_vars

----------------------------------------------------------------------------
(* The apps page over processes with any executable path, argv and raw     *)
(* name: pid 2, a child of the root pid 1, comes and goes                   *)

ExePaths ==
    {<<>>,
     <<"/", "s", "h">>,
     <<"/", "b", "/", "s", " ">>,
     <<"s", "h", "/">>,
     <<"w", "i", "n", "e">>,
     <<"/", "w", "i", "n", "e", "6", "4">>,
     <<"/", "w", "i", "n">>}

CommandLines ==
    {<<>>,
     <<<<>>>>,
     <<<<" ">>>>,
     <<<<"/", "v", "i", ":", " ", "x">>>>,
     <<<<"v", "i", ":", ":">>, <<"-", "x">>>>,
     <<<<" ", "/", "u", "/", "x", " ">>>>,
     <<<<"C", ":", "\\", "p", "\\", "g", ".", "e">>>>,
     <<<<"\\", "a", "/", "b", " ">>>>,
     <<<<"a", "/", "b", "\\", "c", " ", "d">>>>,
     <<<<"u", "/">>>>}

RawNames == {<<"s", "h">>, <<" ", "v", "i", " ">>, <<"k", ":">>}

NamedProcess == 2

NameProcessMaps(tick) ==
    {(1 :> [pid |-> 1, children |-> {}, usage_stats |-> Usage(1, tick), exe |-> <<>>,
            cmd |-> <<>>, name |-> <<>>])}
    \cup
    {(1 :> [pid |-> 1, children |-> {NamedProcess}, usage_stats |-> Usage(1, tick),
            exe |-> <<>>, cmd |-> <<>>, name |-> <<>>])
     @@ (NamedProcess :> [pid |-> NamedProcess, children |-> {},
                          usage_stats |-> Usage(NamedProcess, tick),
                          exe |-> exe, cmd |-> cmd, name |-> name]) :
        exe \in ExePaths, cmd \in CommandLines, name \in RawNames}

NameReadings(tick) ==
    {[running_processes |-> pm, running_apps |-> <<>>,
      user_services |-> <<>>, system_services |-> <<>>] : pm \in NameProcessMaps(tick)}

InitNames ==
    /\ settings_namespace = "AppsPage"
    /\ InitPage
    /\ app_arg = [pids |-> <<>>]
    /\ process_map_arg = <<>>
    /\ primary_result = <<>>
    /\ NoAction
    /\ NoCycleCall
    /\ NoView
    /\ NoSettings
    /\ NoSearch

AppsPage_update_readings_names == AppsPage_refresh(NameReadings(cycle + 1))

NextNames == AppsPage_update_readings_names

SpecNames == InitNames /\ [][NextNames]_vars

----------------------------------------------------------------------------
(* The grouping resolver on its own: primary_processes applied to every     *)
(* app pid list and every process table over the bounded pids, child links  *)
(* being arbitrary (self links, cycles, links to pids not in the table)     *)

MaxListLen == 3

ResolverPidLists == UNION {[1..n -> Pids] : n \in 0..MaxListLen}

ResolverProcessMaps ==
    UNION {{[p \in S |-> [pid |-> p, children |-> ch[p], usage_stats |-> 0]] :
               ch \in [S -> SUBSET Pids]} : S \in SUBSET Pids}

InitPrimary ==
    /\ settings_namespace = "AppsPage"
    /\ InitPage
    /\ app_arg \in [pids : ResolverPidLists]
    /\ process_map_arg \in ResolverProcessMaps
    /\ primary_result = <<>>
    /\ NoAction
    /\ NoCycleCall
    /\ NoView
    /\ NoSettings
    /\ NoSearch

CallPrimaryProcesses ==
    /\ primary_result = <<>>
    /\ primary_result' = <<primary_processes(app_arg, process_map_arg)>>
    /\ UNCHANGED <<app_arg, process_map_arg>>
    /\ UNCHANGED pageVars
    /\ UNCHANGED actionVars
    /\ UNCHANGED restVars

NextPrimary == CallPrimaryProcesses

SpecPrimary == InitPrimary /\ [][NextPrimary]_vars

----------------------------------------------------------------------------
(* apps_page/actions.rs: the process actions of the apps page *)

MaxTreeProcesses == 4

Bwrap == <<"b", "w", "r", "a", "p">>

RECURSIVE find_stoppable_child(_, _)
RECURSIVE first_stoppable(_, _, _)

(* The loop of find_stoppable_child over the children of a wrapper *)
first_stoppable(h, children, index) ==
    IF index > Len(children) THEN <<>>
    ELSE LET rm == find_stoppable_child(h, children[index])
         IN IF rm # <<>> THEN rm ELSE first_stoppable(h, children, index + 1)

(* Variant of find_stoppable_child that looks at the wrapper's own children *)
(* only                                                                     *)
find_stoppable_child_shallow(h, row_model) ==
    IF h[row_model].name # Bwrap THEN <<row_model>>
    ELSE LET plain == SelectSeq(h[row_model].children, LAMBDA c : h[c].name # Bwrap)
         IN IF plain = <<>> THEN <<>> ELSE <<plain[1]>>

(* <<>> is None, <<reference>> is Some(node) *)
find_stoppable_child(h, row_model) ==
    IF h[row_model].name # Bwrap THEN <<row_model>>
    ELSE first_stoppable(h, h[row_model].children, 1)

(* Variant of app_pids that sends the wrapper's own pid when unwrapping     *)
(* finds nothing                                                            *)
RECURSIVE app_pids_keeps_wrapper(_, _, _)
app_pids_keeps_wrapper(h, row_model, index) ==
    IF index > Len(h[row_model].children) THEN <<>>
    ELSE LET item == h[row_model].children[index]
             child == find_stoppable_child(h, item)
         IN (IF child = <<>> THEN <<h[item].pid>> ELSE <<h[child[1]].pid>>)
            \o app_pids_keeps_wrapper(h, row_model, index + 1)

(* The pids pushed for the children from position `index` on *)
RECURSIVE app_pids(_, _, _)
app_pids(h, row_model, index) ==
    IF index > Len(h[row_model].children) THEN <<>>
    ELSE LET child == find_stoppable_child(h, h[row_model].children[index])
         IN (IF child = <<>> THEN <<>> ELSE <<h[child[1]].pid>>)
            \o app_pids(h, row_model, index + 1)

(* The trees an app node can head: the app is object 3, its processes are   *)
(* the objects after it, each below an earlier one, wrapper or not          *)
AppNodeRef == SecondSectionRef + 1

TreePid(ref) == 10 * ref

ProcessRefs(n) == (AppNodeRef + 1)..(AppNodeRef + n)

TreeHeap(n, par, names) ==
    LET kids(r) == SortByKey({c \in ProcessRefs(n) : par[c] = r}, [c \in ProcessRefs(n) |-> c])
    IN [r \in 1..(AppNodeRef + n) |->
          IF r = FirstSectionRef
          THEN [RowModelBuilder("SectionHeader", "FirstSection", "", 0, 0)
                   EXCEPT !.children = <<AppNodeRef>>]
          ELSE IF r = SecondSectionRef
          THEN [RowModelBuilder("SectionHeader", "SecondSection", "", 0, 0)
                   EXCEPT !.children = kids(AppNodeRef)]
          ELSE IF r = AppNodeRef
          THEN [with_name(RowModelBuilder("App", "FirstSection", "a", 0, 0), <<"a">>)
                   EXCEPT !.children = kids(AppNodeRef)]
          ELSE [with_name(RowModelBuilder("Process", "SecondSection",
                                          to_string(TreePid(r)), TreePid(r), 0), names[r])
                   EXCEPT !.children = kids(r)]]

ActionTrees ==
    UNION {{TreeHeap(n, par, names) :
               par \in {f \in [ProcessRefs(n) -> AppNodeRef..(AppNodeRef + n)] :
                           \A r \in ProcessRefs(n) : f[r] < r},
               names \in [ProcessRefs(n) -> {Bwrap, <<"s", "h">>}]} :
           n \in 0..MaxTreeProcesses}

InitActions ==
    /\ settings_namespace = "AppsPage"
    /\ heap \in ActionTrees
    /\ readings = NoReadings
    /\ diagnostics = {}
    /\ use_merged_stats = FALSE
    /\ cycle = 0
    /\ before = [heap |-> InitHeap, readings |-> NoReadings, use_merged_stats |-> FALSE]
    /\ app_arg = [pids |-> <<>>]
    /\ process_map_arg = <<>>
    /\ primary_result = <<>>
    /\ selected_item \in DOMAIN heap
    /\ dispatched = <<>>
    /\ stoppable_result = <<>>
    /\ action_enabled = <<>>
    /\ NoCycleCall
    /\ NoView
    /\ NoSettings
    /\ NoSearch

(* new_action!, connect_activate: stop, force-stop, suspend, continue,      *)
(* hangup, interrupt, user-one and user-two differ only in the magpie call  *)
ActivateProcessAction ==
    /\ selected_item \in DOMAIN heap
    /\ heap[selected_item].content_type \in {"Process", "App"}
    /\ dispatched' = <<IF heap[selected_item].content_type = "Process"
                       THEN <<heap[selected_item].pid>>
                       ELSE app_pids(heap, selected_item, 1)>>
    /\ UNCHANGED <<selected_item, stoppable_result, action_enabled>>
    /\ UNCHANGED pageVars
    /\ UNCHANGED resolverVars
    /\ UNCHANGED restVars

(* find_stoppable_child on a node below an app *)
CallFindStoppableChild ==
    /\ \E app \in Range(heap[FirstSectionRef].children) :
          \E row_model \in Reachable(heap, {app}) \ {app} :
              stoppable_result' = <<row_model, find_stoppable_child(heap, row_model)>>
    /\ UNCHANGED <<selected_item, dispatched, action_enabled>>
    /\ UNCHANGED pageVars
    /\ UNCHANGED resolverVars
    /\ UNCHANGED restVars

NextActions ==
    \/ CallPrimaryProcesses
    \/ ActivateProcessAction
    \/ CallFindStoppableChild

SpecActions == (InitPrimary \/ InitActions) /\ [][NextActions]_vars

----------------------------------------------------------------------------
(* The recursion of one refresh cycle, call by call                         *)
(*                                                                          *)
(* update_processes calls update_process once for every pid of its pids     *)
(* argument that the process map knows (the listed ones in its first loop,  *)
(* the others in its last loop), and update_process calls update_processes  *)
(* on the children of that process. A frame of call_stack is the set of     *)
(* pids one update_processes call has still to visit. The process table is  *)
(* any table over Pids, its child links unconstrained.                      *)

(* The thread's stack holds this many nested update_processes calls: more   *)
(* than any table over Pids without a cycle in its child links asks for     *)
StackLimit == 5

InitRecursion ==
    /\ settings_namespace \in {"AppsPage", "ServicesPage"}
    /\ InitPage
    /\ app_arg = [pids |-> <<>>]
    /\ process_map_arg \in ResolverProcessMaps
    /\ primary_result = <<>>
    /\ NoAction
    /\ NoCycleCall
    /\ NoView
    /\ NoSettings
    /\ NoSearch

(* AppsPage::update_common: update_processes on the children of the root process *)
AppsPage_update_common_enter ==
    /\ settings_namespace = "AppsPage"
    /\ outcome = "idle"
    /\ LET pm == process_map_arg
           root_process == IF DOMAIN pm = {} THEN 1 ELSE Min(DOMAIN pm)
       IN IF root_process \in DOMAIN pm
          THEN /\ call_stack' = <<pm[root_process].children>>
               /\ outcome' = "running"
          ELSE /\ call_stack' = <<>>
               /\ outcome' = "completed"
    /\ UNCHANGED <<pageVars, resolverVars, actionVars, filterVars, viewVars, settingsVars>>

(* update_service: update_processes on the pid of a service that has one *)
update_service_enter(pid) ==
    /\ settings_namespace = "ServicesPage"
    /\ outcome = "idle"
    /\ call_stack' = <<{pid}>>
    /\ outcome' = "running"
    /\ UNCHANGED <<pageVars, resolverVars, actionVars, filterVars, viewVars, settingsVars>>

(* update_processes takes the next pid; a pid the map knows goes to         *)
(* update_process, which calls update_processes on its children             *)
update_process_enter(pid) ==
    /\ outcome = "running"
    /\ call_stack # <<>>
    /\ pid \in Last(call_stack)
    /\ LET n == Len(call_stack)
           rest == [call_stack EXCEPT ![n] = @ \ {pid}]
       IN IF pid \notin DOMAIN process_map_arg
          THEN /\ call_stack' = rest
               /\ outcome' = outcome
          ELSE IF n = StackLimit
          THEN /\ call_stack' = <<>>
               /\ outcome' = "stack overflow"
          ELSE /\ call_stack' = Append(rest, process_map_arg[pid].children)
               /\ outcome' = outcome
    /\ UNCHANGED <<pageVars, resolverVars, actionVars, filterVars, viewVars, settingsVars>>

(* update_processes has visited all its pids and returns *)
update_processes_return ==
    /\ outcome = "running"
    /\ call_stack # <<>>
    /\ Last(call_stack) = {}
    /\ call_stack' = SubSeq(call_stack, 1, Len(call_stack) - 1)
    /\ outcome' = IF Len(call_stack) = 1 THEN "completed" ELSE outcome
    /\ UNCHANGED <<pageVars, resolverVars, actionVars, filterVars, viewVars, settingsVars>>

NextRecursion ==
    \/ AppsPage_update_common_enter
    \/ \E pid \in Pids : update_service_enter(pid)
    \/ \E pid \in Pids : update_process_enter(pid)
    \/ update_processes_return

SpecRecursion == InitRecursion /\ [][NextRecursion]_vars

----------------------------------------------------------------------------
(* table_view/mod.rs: the search part of the filter of configure_filter     *)

MaxNameLen == 5
MaxQueryLen == 3

NameChars == {"a", "B"}
QueryChars == {"a", "b", "B", "1"}
SearchNames == UNION {[1..n -> NameChars] : n \in 0..MaxNameLen}
SearchQueries == UNION {[1..n -> QueryChars] : n \in 0..MaxQueryLen}
SearchPids == {1, 12}
SearchContentTypes == {"SectionHeader", "Process"}

Max(S) == CHOOSE x \in S : \A y \in S : y <= x

(* str::to_lowercase on the letters of NameChars and QueryChars *)
LowerOf == [c \in {"A", "B"} |-> IF c = "A" THEN "a" ELSE "b"]

to_lowercase(s) == [i \in 1..Len(s) |-> IF s[i] \in DOMAIN LowerOf THEN LowerOf[s[i]] ELSE s[i]]

(* u32::to_string as a text of one-character strings *)
RECURSIVE decimal(_)
decimal(n) ==
    IF n < 10 THEN <<Digit[n + 1]>>
    ELSE Append(decimal(n \div 10), Digit[(n % 10) + 1])

(* textdistance: Levenshtein::default().for_str(a, b), the number of        *)
(* insertions, deletions and substitutions (each of cost 1) over the        *)
(* characters, by the Wagner-Fischer table                                  *)
Levenshtein(a, b) ==
    LET d[i \in 0..Len(a), j \in 0..Len(b)] ==
            IF i = 0 THEN j
            ELSE IF j = 0 THEN i
            ELSE Min({d[i - 1, j] + 1, d[i, j - 1] + 1,
                      d[i - 1, j - 1] + (IF a[i] = b[j] THEN 0 ELSE 1)})
    IN d[Len(a), Len(b)]

(* textdistance Result::ndist as a fraction <<distance, longer length>>;    *)
(* two empty texts are at distance 0                                        *)
ndist(a, b) ==
    LET longer == Max({Len(a), Len(b)})
    IN IF longer = 0 THEN <<0, 1>> ELSE <<Levenshtein(a, b), longer>>

(* The threshold 0.6 as the fraction ThresholdNum / ThresholdDen *)
ThresholdNum == 3
ThresholdDen == 5

str_distance_below_threshold(str_distance) ==
    str_distance[1] * ThresholdDen < ThresholdNum * str_distance[2]

(* str_distance <= 0.6 *)
str_distance_matches(str_distance) ==
    str_distance[1] * ThresholdDen <= ThresholdNum * str_distance[2]

(* The closure without its test for section headers *)
search_headers_too(active, text, row_model) ==
    IF ~active THEN TRUE
    ELSE IF text = <<>> THEN TRUE
    ELSE LET entry_name == to_lowercase(row_model.name)
             pid == decimal(row_model.pid)
             search_query == to_lowercase(text)
         IN IF Contains(entry_name, search_query) \/ Contains(pid, search_query) THEN TRUE
            ELSE IF Contains(search_query, entry_name) \/ Contains(search_query, pid) THEN TRUE
            ELSE str_distance_matches(ndist(entry_name, search_query))

(* The closure without its first test, query within name or pid *)
search_skips_contained_query(active, text, row_model) ==
    IF ~active THEN TRUE
    ELSE IF text = <<>> THEN TRUE
    ELSE IF row_model.content_type = "SectionHeader" THEN TRUE
    ELSE LET entry_name == to_lowercase(row_model.name)
             pid == decimal(row_model.pid)
             search_query == to_lowercase(text)
         IN IF Contains(search_query, entry_name) \/ Contains(search_query, pid) THEN TRUE
            ELSE str_distance_matches(ndist(entry_name, search_query))

(* The closure search of configure_filter, the window being alive: active   *)
(* is window.search_button.is_active(), text is header_search_entry.text()  *)
search(active, text, row_model) ==
    IF ~active THEN TRUE
    ELSE IF text = <<>> THEN TRUE
    ELSE IF row_model.content_type = "SectionHeader" THEN TRUE
    ELSE LET entry_name == to_lowercase(row_model.name)
             pid == decimal(row_model.pid)
             search_query == to_lowercase(text)
         IN IF Contains(entry_name, search_query) \/ Contains(pid, search_query) THEN TRUE
            ELSE IF Contains(search_query, entry_name) \/ Contains(search_query, pid) THEN TRUE
            ELSE IF str_distance_matches(ndist(entry_name, search_query)) THEN TRUE
            ELSE FALSE

InitSearch ==
    /\ settings_namespace \in {"AppsPage", "ServicesPage"}
    /\ InitPage
    /\ app_arg = [pids |-> <<>>]
    /\ process_map_arg = <<>>
    /\ primary_result = <<>>
    /\ NoAction
    /\ NoCycleCall
    /\ NoView
    /\ NoSettings
    /\ search_button \in BOOLEAN
    /\ header_search_entry \in SearchQueries
    /\ filter_item \in [content_type : SearchContentTypes, name : SearchNames, pid : SearchPids]
    /\ search_result = <<>>
    /\ previous_search = <<>>

(* The filter is asked about filter_item *)
CustomFilter_match ==
    /\ search_result = <<>>
    /\ search_result' = <<search(search_button, header_search_entry, filter_item)>>
    /\ UNCHANGED <<search_button, header_search_entry, filter_item, previous_search>>
    /\ UNCHANGED <<pageVars, resolverVars, actionVars, recursionVars, viewVars, settingsVars>>

NextSearch == CustomFilter_match

SpecSearch == InitSearch /\ [][NextSearch]_vars

(* The search entry being edited: the same filter over shorter names *)
MaxEditNameLen == 3

InitSearchEdit ==
    /\ InitSearch
    /\ settings_namespace = "AppsPage"
    /\ Len(filter_item.name) <= MaxEditNameLen

(* The texts one keystroke makes of a text: a character of QueryChars typed *)
(* at any place, or a character deleted                                     *)
Typed(text) ==
    {SubSeq(text, 1, i) \o <<c>> \o SubSeq(text, i + 1, Len(text)) :
        i \in 0..Len(text), c \in QueryChars}

Deleted(text) ==
    {SubSeq(text, 1, i - 1) \o SubSeq(text, i + 1, Len(text)) : i \in 1..Len(text)}

(* The user edits the search entry once the filter has answered:            *)
(* connect_search_changed tells the filter to ask again about every row     *)
search_changed(text) ==
    /\ search_result # <<>>
    /\ previous_search = <<>>
    /\ text \in SearchQueries
    /\ text \in Typed(header_search_entry) \cup Deleted(header_search_entry)
    /\ previous_search' = <<header_search_entry, search_result[1]>>
    /\ header_search_entry' = text
    /\ search_result' = <<>>
    /\ UNCHANGED <<search_button, filter_item>>
    /\ UNCHANGED <<pageVars, resolverVars, actionVars, recursionVars, viewVars, settingsVars>>

NextSearchEdit ==
    \/ CustomFilter_match
    \/ \E text \in SearchQueries : search_changed(text)

SpecSearchEdit == InitSearchEdit /\ [][NextSearchEdit]_vars

----------------------------------------------------------------------------
(* table_view/mod.rs: the rows of the services page behind the filter       *)
(*                                                                          *)
(* TableView::setup puts the two section headers in a list store, a         *)
(* gtk::TreeListModel (autoexpand) makes a row of every node below them and *)
(* a gtk::FilterListModel holds the custom filter of configure_filter. The  *)
(* filter list model asks the filter about a row when the row is announced  *)
(* by items-changed (gio::ListStore::append emits it before it returns) and *)
(* about every row when the filter emits changed; setting a property of a   *)
(* RowModel announces nothing to it.                                        *)

MaxViewEvents == 2

(* The closure without the test of service_failed for toggle_disabled *)
filter_disabled_shows_failed(group, row_model) ==
    IF group = <<>> THEN TRUE
    ELSE IF row_model.content_type = "SectionHeader" THEN TRUE
    ELSE IF \A i \in 1..Len(group) : ~group[i] THEN TRUE
    ELSE LET visible == [i \in 1..Len(group) |->
                 CASE ToggleNames[i] = "toggle_running" ->
                          group[i] /\ row_model.service_running
                   [] ToggleNames[i] = "toggle_failed" ->
                          group[i] /\ row_model.service_failed
                   [] ToggleNames[i] = "toggle_stopped" ->
                          group[i] /\ row_model.service_stopped
                   [] ToggleNames[i] = "toggle_disabled" ->
                          /\ group[i]
                          /\ ~row_model.service_enabled
                          /\ ~row_model.service_running
                   [] OTHER -> FALSE]
         IN \E i \in 1..Len(group) : visible[i]

(* The closure filter of configure_filter; group is <<>> for None, else     *)
(* is_active of every toggle                                                *)
filter(group, row_model) ==
    IF group = <<>> THEN TRUE
    ELSE IF row_model.content_type = "SectionHeader" THEN TRUE
    ELSE IF \A i \in 1..Len(group) : ~group[i] THEN TRUE
    ELSE LET visible == [i \in 1..Len(group) |->
                 CASE ToggleNames[i] = "toggle_running" ->
                          group[i] /\ row_model.service_running
                   [] ToggleNames[i] = "toggle_failed" ->
                          group[i] /\ row_model.service_failed
                   [] ToggleNames[i] = "toggle_stopped" ->
                          group[i] /\ row_model.service_stopped
                   [] ToggleNames[i] = "toggle_disabled" ->
                          /\ group[i]
                          /\ ~row_model.service_enabled
                          /\ ~row_model.service_running
                          /\ ~row_model.service_failed
                   [] OTHER -> FALSE]
         IN \E i \in 1..Len(group) : visible[i]

(* The closure of gtk::CustomFilter::new: search() && filter() *)
custom_filter(active, text, group, row_model) ==
    search(active, text, row_model) /\ filter(group, row_model)

(* The filter list model asks about a row: it keeps the answer; item is the *)
(* RowModel as the closure read it                                          *)
run_filter_on_item(active, text, group, row_model) ==
    [matches |-> custom_filter(active, text, group, row_model), item |-> row_model]

(* A row the cycle has appended, as it stood when list.append announced it: *)
(* the object the builder returned (update_services 226-235,                *)
(* update_processes 168-175); update_service and update_process, which set  *)
(* pid, stats and service flags, are called after the append                *)
row_at_append(row_model) ==
    with_name(RowModelBuilder(row_model.content_type, row_model.section_type, row_model.id,
                              IF row_model.content_type = "Service" THEN 0 ELSE row_model.pid,
                              row_model.service_id),
              row_model.name)

(* What one refresh cycle does to the filter list model: removed rows are   *)
(* dropped, kept rows are not asked about again, appended rows are asked    *)
(* about at their append                                                    *)
items_changed(model, old_heap, new_heap, active, text, group) ==
    [r \in DOMAIN new_heap |->
        IF r \in DOMAIN old_heap /\ r \in DOMAIN model THEN model[r]
        ELSE run_filter_on_item(active, text, group, row_at_append(new_heap[r]))]

(* filter.changed(FilterChange::Different): every row is asked about again *)
filter_changed(h, active, text, group) ==
    [r \in DOMAIN h |-> run_filter_on_item(active, text, group, h[r])]

ViewServiceId == Min(UserServiceIds)
ViewServicePid == 2

ViewServiceMaps(tick) ==
    {<<>>} \cup
    {ServicesAt((ViewServiceId :> [id |-> ViewServiceId, pid |-> pid, running |-> running,
                                    enabled |-> enabled, failed |-> failed]), tick) :
        pid \in {<<>>, <<ViewServicePid>>}, running \in BOOLEAN, enabled \in BOOLEAN,
        failed \in BOOLEAN}

ViewReadings(tick) ==
    {[running_processes |-> pm, running_apps |-> <<>>,
      user_services |-> sm, system_services |-> <<>>] :
        pm \in {t \in ProcessMaps(tick) : DOMAIN t = {1, ViewServicePid}
                                          /\ t[1].children = {ViewServicePid}},
        sm \in ViewServiceMaps(tick)}

ViewQueries == {<<>>, <<"2">>, <<"s">>}

UserEvents(log) == Len(SelectSeq(log, LAMBDA e : e # "update_readings"))

(* ServicesPage::set_initial_readings up to the call of update_common: the  *)
(* view is set up over the two headers, no toggle active                    *)
InitView ==
    /\ settings_namespace = "ServicesPage"
    /\ InitPage
    /\ app_arg = [pids |-> <<>>]
    /\ process_map_arg = <<>>
    /\ primary_result = <<>>
    /\ NoAction
    /\ NoCycleCall
    /\ NoSettings
    /\ search_button \in BOOLEAN
    /\ header_search_entry = <<>>
    /\ filter_item = [content_type |-> "SectionHeader", name |-> <<>>, pid |-> 0]
    /\ search_result = <<>>
    /\ previous_search = <<>>
    /\ toggle_group = [i \in 1..Len(ToggleNames) |-> FALSE]
    /\ filter_list_model = filter_changed(InitHeap, search_button, <<>>,
                                          [i \in 1..Len(ToggleNames) |-> FALSE])
    /\ view_log = <<>>
    /\ headers = DefaultHeaders

(* ServicesPage::set_initial_readings / update_readings with the view set   *)
(* up: update_common, during which the appends are announced                *)
ServicesPage_update_readings_view ==
    /\ settings_namespace = "ServicesPage"
    /\ cycle < MaxCycles
    /\ \E r \in ViewReadings(cycle + 1), seed \in Seeds :
          LET h == Collect(ServicesPage_update_common(heap, r, use_merged_stats, seed))
          IN /\ heap' = h
             /\ readings' = r
             /\ filter_list_model' = items_changed(filter_list_model, heap, h, search_button,
                                                   header_search_entry, toggle_group)
             /\ headers' = update_headers(count_services(r), toggle_group)
    /\ cycle' = cycle + 1
    /\ before' = [heap |-> heap, readings |-> readings,
                  use_merged_stats |-> use_merged_stats]
    /\ view_log' = Append(view_log, "update_readings")
    /\ UNCHANGED <<settings_namespace, use_merged_stats, diagnostics, toggle_group>>
    /\ UNCHANGED <<resolverVars, actionVars, recursionVars, filterVars, settingsVars>>

(* The user clicks a toggle button: toggle.connect_toggled *)
toggled(i) ==
    /\ UserEvents(view_log) < MaxViewEvents
    /\ toggle_group' = [toggle_group EXCEPT ![i] = ~@]
    /\ filter_list_model' = filter_changed(heap, search_button, header_search_entry,
                                           toggle_group')
    /\ headers' = update_headers(headers, toggle_group')
    /\ view_log' = Append(view_log, "toggled")
    /\ UNCHANGED <<pageVars, resolverVars, actionVars, recursionVars, filterVars,
                   settingsVars>>

(* The user edits the search entry: header_search_entry.connect_search_changed *)
header_search_changed(text) ==
    /\ UserEvents(view_log) < MaxViewEvents
    /\ text # header_search_entry
    /\ header_search_entry' = text
    /\ filter_list_model' = filter_changed(heap, search_button, text, toggle_group)
    /\ view_log' = Append(view_log, "search_changed")
    /\ UNCHANGED <<search_button, filter_item, search_result, previous_search, toggle_group,
                   headers>>
    /\ UNCHANGED <<pageVars, resolverVars, actionVars, recursionVars, settingsVars>>

NextView ==
    \/ ServicesPage_update_readings_view
    \/ \E i \in 1..Len(ToggleNames) : toggled(i)
    \/ \E text \in ViewQueries : header_search_changed(text)

SpecView == InitView /\ [][NextView]_vars

----------------------------------------------------------------------------
(* apps_page/actions.rs, services_page/actions.rs, TableView::              *)
(* setup_selection_model: the actions of a page against the selected row.   *)
(* An action is named by its group and name; the apps page registers the    *)
(* group "process", the services page the groups "service" and "process".   *)

ProcessActionNames ==
    {"process.stop", "process.force-stop", "process.suspend", "process.continue",
     "process.hangup", "process.interrupt", "process.user-one", "process.user-two",
     "process.details"}

ServiceStateActionNames == {"service.start", "service.stop", "service.restart"}

ServiceActionNames == ServiceStateActionNames \cup {"service.details"}

RegisteredActions(namespace) ==
    IF namespace = "AppsPage" THEN ProcessActionNames
    ELSE ServiceActionNames \cup ProcessActionNames

(* apps new_action! and action_details: the argument of set_enabled *)
process_action_enabled(row_model) ==
    row_model.content_type = "Process" \/ row_model.content_type = "App"

(* services new_action! with the $cond of action_start, action_stop and     *)
(* action_restart, and action_details: the argument of set_enabled          *)
service_action_enabled(name, row_model) ==
    /\ row_model.content_type = "Service"
    /\ CASE name = "service.start" -> ~row_model.service_running
         [] name = "service.stop" -> row_model.service_running
         [] name = "service.restart" -> row_model.service_running
         [] OTHER -> TRUE

(* The closures connected to notify::selected-item: every action of the     *)
(* page is enabled or disabled for the selected row                         *)
selected_item_notify(enabled, row_model) ==
    [name \in DOMAIN enabled |->
        IF name \in ProcessActionNames THEN process_action_enabled(row_model)
        ELSE service_action_enabled(name, row_model)]

(* Variant of selected_item_running_notify in which no closure is connected *)
selected_item_running_notify_unconnected(enabled, row_model) == enabled

(* The closures connected to notify::selected-item-running: start, stop     *)
(* and restart are enabled or disabled for the selected row                 *)
selected_item_running_notify(enabled, row_model) ==
    [name \in DOMAIN enabled |->
        IF name \in ServiceStateActionNames THEN service_action_enabled(name, row_model)
        ELSE enabled[name]]

(* The closure of selection_model.connect_selected_item_notify: the row is  *)
(* made the selected item, then selected-item, selected-item-running and    *)
(* selected-item-enabled are notified                                       *)
selection_changed(enabled, row_model) ==
    selected_item_running_notify(selected_item_notify(enabled, row_model), row_model)

(* What a refresh cycle does to the selection (gtk::SingleSelection with    *)
(* autoselect): a selected row that stays in the tree stays selected, and   *)
(* when it is a service its service-running is notified by set_service;     *)
(* when the selected row is removed, another row of the list is selected.   *)
SelectionsAfterCycle(h, selected) == IF selected \in DOMAIN h THEN {selected} ELSE DOMAIN h

enabled_after_cycle(enabled, h, old_selected, selected) ==
    IF selected # old_selected THEN selection_changed(enabled, h[selected])
    ELSE IF h[selected].content_type = "Service"
    THEN selected_item_running_notify(enabled, h[selected])
    ELSE enabled

(* The process table holds the root and, or not, its child 2; the app, when *)
(* there is one, runs as pid 2                                              *)
SelectionAppsReadings(tick) ==
    {r \in AppsReadings(tick) :
        /\ 1 \in DOMAIN r.running_processes
        /\ DOMAIN r.running_processes \subseteq {1, ViewServicePid}
        /\ DOMAIN r.running_apps \subseteq {"a"}
        /\ \A a \in DOMAIN r.running_apps : r.running_apps[a].pids = <<ViewServicePid>>}

(* One user service, enabled and not failed, running or not *)
SelectionServicesReadings(tick) ==
    {r \in ViewReadings(tick) :
        \A k \in DOMAIN r.user_services :
            r.user_services[k].enabled /\ ~r.user_services[k].failed}

(* The page after TableView::setup: the list holds the two section headers, *)
(* the first is selected, the actions have been enabled for it              *)
InitSelection ==
    /\ settings_namespace \in {"AppsPage", "ServicesPage"}
    /\ InitPage
    /\ app_arg = [pids |-> <<>>]
    /\ process_map_arg = <<>>
    /\ primary_result = <<>>
    /\ selected_item = FirstSectionRef
    /\ dispatched = <<>>
    /\ stoppable_result = <<>>
    /\ action_enabled = selection_changed([name \in RegisteredActions(settings_namespace)
                                               |-> FALSE],
                                          InitHeap[FirstSectionRef])
    /\ NoCycleCall
    /\ NoView
    /\ NoSettings
    /\ NoSearch

(* AppsPage::update_readings with a row selected *)
AppsPage_update_readings_selection ==
    /\ settings_namespace = "AppsPage"
    /\ cycle < MaxCycles
    /\ \E r \in SelectionAppsReadings(cycle + 1), seed \in Seeds :
          LET st == AppsPage_update_common(heap, r, use_merged_stats, seed)
          IN /\ heap' = Collect(st.heap)
             /\ diagnostics' = st.diagnostics
             /\ readings' = r
    /\ \E selected \in SelectionsAfterCycle(heap', selected_item) :
          /\ selected_item' = selected
          /\ action_enabled' = enabled_after_cycle(action_enabled, heap', selected_item,
                                                   selected)
    /\ cycle' = cycle + 1
    /\ before' = [heap |-> heap, readings |-> readings,
                  use_merged_stats |-> use_merged_stats]
    /\ view_log' = Append(view_log, "update_readings")
    /\ UNCHANGED <<settings_namespace, use_merged_stats, dispatched, stoppable_result>>
    /\ UNCHANGED <<resolverVars, recursionVars, filterVars, settingsVars>>
    /\ UNCHANGED <<toggle_group, filter_list_model, headers>>

(* ServicesPage::update_readings with a row selected *)
ServicesPage_update_readings_selection ==
    /\ settings_namespace = "ServicesPage"
    /\ cycle < MaxCycles
    /\ \E r \in SelectionServicesReadings(cycle + 1), seed \in Seeds :
          /\ heap' = Collect(ServicesPage_update_common(heap, r, use_merged_stats, seed))
          /\ readings' = r
          /\ headers' = update_headers(count_services(r), toggle_group)
    /\ \E selected \in SelectionsAfterCycle(heap', selected_item) :
          /\ selected_item' = selected
          /\ action_enabled' = enabled_after_cycle(action_enabled, heap', selected_item,
                                                   selected)
    /\ cycle' = cycle + 1
    /\ before' = [heap |-> heap, readings |-> readings,
                  use_merged_stats |-> use_merged_stats]
    /\ view_log' = Append(view_log, "update_readings")
    /\ UNCHANGED <<settings_namespace, use_merged_stats, diagnostics, dispatched,
                   stoppable_result>>
    /\ UNCHANGED <<resolverVars, recursionVars, filterVars, settingsVars>>
    /\ UNCHANGED <<toggle_group, filter_list_model>>

(* The user selects another row of the list *)
user_selects(row) ==
    /\ UserEvents(view_log) < MaxViewEvents
    /\ row # selected_item
    /\ selected_item' = row
    /\ action_enabled' = selection_changed(action_enabled, heap[row])
    /\ view_log' = Append(view_log, "select")
    /\ UNCHANGED <<dispatched, stoppable_result>>
    /\ UNCHANGED <<pageVars, resolverVars, recursionVars, filterVars, settingsVars>>
    /\ UNCHANGED <<toggle_group, filter_list_model, headers>>

(* gio::SimpleAction::activate of a process action: nothing happens while   *)
(* the action is disabled; else connect_activate runs: the pid of a         *)
(* process, the app_pids of an app are handed to magpie, and "details"      *)
(* opens the dialog of the selected row (its id stands for the dialog)      *)
activate_process_action(name) ==
    /\ UserEvents(view_log) < MaxViewEvents
    /\ action_enabled[name]
    /\ LET row_model == heap[selected_item]
       IN dispatched' =
              IF ~process_action_enabled(row_model) THEN dispatched
              ELSE IF name = "process.details" THEN <<row_model.id>>
              ELSE IF row_model.content_type = "Process" THEN <<<<row_model.pid>>>>
              ELSE <<app_pids(heap, selected_item, 1)>>
    /\ view_log' = Append(view_log, name)
    /\ UNCHANGED <<selected_item, stoppable_result, action_enabled>>
    /\ UNCHANGED <<pageVars, resolverVars, recursionVars, filterVars, settingsVars>>
    /\ UNCHANGED <<toggle_group, filter_list_model, headers>>

(* gio::SimpleAction::activate of a service action: make_magpie_request     *)
(* hands the service_id of the selected item to magpie; "details" opens     *)
(* the dialog when the selected row is a service                            *)
activate_service_action(name) ==
    /\ UserEvents(view_log) < MaxViewEvents
    /\ action_enabled[name]
    /\ LET row_model == heap[selected_item]
       IN dispatched' =
              IF name # "service.details" THEN <<row_model.service_id>>
              ELSE IF row_model.content_type = "Service" THEN <<row_model.id>>
              ELSE dispatched
    /\ view_log' = Append(view_log, name)
    /\ UNCHANGED <<selected_item, stoppable_result, action_enabled>>
    /\ UNCHANGED <<pageVars, resolverVars, recursionVars, filterVars, settingsVars>>
    /\ UNCHANGED <<toggle_group, filter_list_model, headers>>

NextSelection ==
    \/ AppsPage_update_readings_selection
    \/ ServicesPage_update_readings_selection
    \/ \E row \in DOMAIN heap : user_selects(row)
    \/ \E name \in ProcessActionNames \cap DOMAIN action_enabled :
          activate_process_action(name)
    \/ \E name \in ServiceActionNames \cap DOMAIN action_enabled :
          activate_service_action(name)

SpecSelection == InitSelection /\ [][NextSelection]_vars

----------------------------------------------------------------------------
(* table_view/mod.rs, table_view/settings.rs: what the view stores in       *)
(* gio::Settings and reads back at setup                                    *)

MaxSettingsEvents == 4
MaxColumnOrderLen == 5

(* SettingsNamespace::key_to_string *)
key_to_string(namespace) ==
    IF namespace = "AppsPage" THEN "apps-page" ELSE "services-page"

(* SettingsValues::key_to_string *)
SettingsValues_key_to_string(value) ==
    CASE value = "SortingColumnName" -> "sorting-column-name"
      [] value = "SortingOrder" -> "sorting-order"
      [] value = "ColumnOrder" -> "column-order"

(* SettingsNamespace::format_value / TableView::format_settings_key *)
format_value(namespace, value) ==
    key_to_string(namespace) \o "-" \o SettingsValues_key_to_string(value)

OtherNamespace(namespace) == IF namespace = "AppsPage" THEN "ServicesPage" ELSE "AppsPage"

(* gtk::ffi *)
GTK_SORT_ASCENDING == 0
GTK_SORT_DESCENDING == 1
(* The value configure_sorting takes for "no sort" *)
SortOrderNone == 255
(* A stored value that is none of the three *)
SortOrderUnknown == 2

(* The columns of the view as the template lists them, by id; ids are texts *)
DefaultColumns == <<<<"n">>, <<"p">>, <<"c">>, <<"m">>>>

ColumnIds(columns) == {columns[i] : i \in 1..Len(columns)}

(* Position of the first column of the list with this id, 0 if there is none *)
find(all_columns, column_id) ==
    IF \E i \in 1..Len(all_columns) : all_columns[i] = column_id
    THEN Min({i \in 1..Len(all_columns) : all_columns[i] = column_id})
    ELSE 0

Remove(list, index) == SubSeq(list, 1, index - 1) \o SubSeq(list, index + 1, Len(list))

(* Variant of the loop over the stored ids that leaves a matched column in  *)
(* all_columns                                                              *)
RECURSIVE append_stored_columns_kept(_, _, _, _)
append_stored_columns_kept(ids, index, all_columns, appended) ==
    IF index > Len(ids) THEN appended \o all_columns
    ELSE LET at == find(all_columns, ids[index])
         IN IF at = 0
            THEN append_stored_columns_kept(ids, index + 1, all_columns, appended)
            ELSE append_stored_columns_kept(ids, index + 1, all_columns,
                                            Append(appended, all_columns[at]))

(* update_column_order with "remember order" on: the loop over the stored   *)
(* ids, then the columns left over; the result is the new list of columns   *)
RECURSIVE append_stored_columns(_, _, _, _)
append_stored_columns(ids, index, all_columns, appended) ==
    IF index > Len(ids) THEN appended \o all_columns
    ELSE LET at == find(all_columns, ids[index])
         IN IF at = 0
            THEN append_stored_columns(ids, index + 1, all_columns, appended)
            ELSE append_stored_columns(ids, index + 1, Remove(all_columns, at),
                                       Append(appended, all_columns[at]))

(* TableView::update_column_order up to connect_items_changed *)
update_column_order(stored, namespace, columns) ==
    LET order_key == format_value(namespace, "ColumnOrder")
    IN IF stored["apps-page-remember-column-order"]
       THEN [settings |-> stored,
             columns |-> append_stored_columns(Split(stored[order_key], ";"), 1, columns,
                                               <<>>)]
       ELSE [settings |-> [stored EXCEPT ![order_key] = <<>>], columns |-> columns]

(* The text the closure of connect_items_changed builds: the ids, each      *)
(* followed by ';', the last ';' popped                                     *)
RECURSIVE order_text(_, _)
order_text(columns, index) ==
    IF index > Len(columns) THEN <<>>
    ELSE columns[index] \o <<";">> \o order_text(columns, index + 1)

pop(text) == IF text = <<>> THEN <<>> ELSE SubSeq(text, 1, Len(text) - 1)

(* The closure of column_view.columns().connect_items_changed *)
columns_items_changed(stored, namespace, columns) ==
    [stored EXCEPT ![format_value(namespace, "ColumnOrder")] = pop(order_text(columns, 1))]

(* The closure of column_view_sorter.connect_changed (setup_filter_model);  *)
(* sorter is <<>> or <<column id, sort type>>                               *)
sorter_changed(stored, namespace, sorter) ==
    IF sorter = <<>> THEN stored
    ELSE [stored EXCEPT
             ![format_value(namespace, "SortingColumnName")] = sorter[1],
             ![format_value(namespace, "SortingOrder")] =
                 IF sorter[2] = "Ascending" THEN GTK_SORT_ASCENDING
                 ELSE IF sorter[2] = "Descending" THEN GTK_SORT_DESCENDING
                 ELSE GTK_SORT_ASCENDING]

(* gtk::ColumnView::sort_by_column: None clears the sort *)
sort_by_column(matched_column, order) ==
    IF matched_column = <<>> THEN <<>> ELSE <<matched_column[1], order>>

(* Variant of configure_sorting that restores nothing for an unknown order *)
configure_sorting_unknown_is_none(stored, namespace, columns, sorter) ==
    LET sorting_column_name_key == format_value(namespace, "SortingColumnName")
        sorting_order_key == format_value(namespace, "SortingOrder")
    IN IF ~stored["apps-page-remember-sorting"]
       THEN [settings |-> [stored EXCEPT ![sorting_column_name_key] = <<>>,
                                         ![sorting_order_key] = GTK_SORT_ASCENDING],
             sorter |-> sorter, diagnostics |-> {}]
       ELSE LET saved_id == stored[sorting_column_name_key]
                order == stored[sorting_order_key]
                at == find(columns, saved_id)
                matched_column == IF at = 0 THEN <<>> ELSE <<columns[at]>>
            IN IF order \notin {GTK_SORT_ASCENDING, GTK_SORT_DESCENDING}
               THEN [settings |-> stored, sorter |-> sorter, diagnostics |-> {}]
               ELSE LET sort_type == IF order = GTK_SORT_ASCENDING THEN "Ascending"
                                     ELSE "Descending"
                        sorted == sort_by_column(matched_column, sort_type)
                    IN [settings |-> sorter_changed(stored, namespace, sorted),
                        sorter |-> sorted, diagnostics |-> {}]

(* settings::configure_sorting; sort_by_column makes the sorter emit        *)
(* changed, which the closure of setup_filter_model handles                 *)
configure_sorting(stored, namespace, columns, sorter) ==
    LET sorting_column_name_key == format_value(namespace, "SortingColumnName")
        sorting_order_key == format_value(namespace, "SortingOrder")
    IN IF ~stored["apps-page-remember-sorting"]
       THEN [settings |-> [stored EXCEPT ![sorting_column_name_key] = <<>>,
                                         ![sorting_order_key] = GTK_SORT_ASCENDING],
             sorter |-> sorter, diagnostics |-> {}]
       ELSE LET saved_id == stored[sorting_column_name_key]
                order == stored[sorting_order_key]
                at == find(columns, saved_id)
                matched_column == IF at = 0 THEN <<>> ELSE <<columns[at]>>
            IN IF order = SortOrderNone
               THEN [settings |-> stored, sorter |-> sorter, diagnostics |-> {}]
               ELSE LET known == order \in {GTK_SORT_ASCENDING, GTK_SORT_DESCENDING}
                        sort_type == IF order = GTK_SORT_ASCENDING THEN "Ascending"
                                     ELSE IF order = GTK_SORT_DESCENDING THEN "Descending"
                                     ELSE "Ascending"
                        sorted == sort_by_column(matched_column, sort_type)
                    IN [settings |-> sorter_changed(stored, namespace, sorted),
                        sorter |-> sorted,
                        diagnostics |-> IF known THEN {}
                                        ELSE {"Unknown column sorting order"}]

(* What the store holds for a view: a sort and a column order *)
StoredFor(namespace, name, order, column_order) ==
    (format_value(namespace, "SortingColumnName") :> name)
    @@ (format_value(namespace, "SortingOrder") :> order)
    @@ (format_value(namespace, "ColumnOrder") :> column_order)

OtherStored(namespace) ==
    StoredFor(OtherNamespace(namespace), <<"p">>, GTK_SORT_DESCENDING, <<"p", ";", "n">>)

Preferences(remember_sorting, remember_order) ==
    ("apps-page-remember-sorting" :> remember_sorting)
    @@ ("apps-page-remember-column-order" :> remember_order)

StoredNames == {<<>>, <<"n">>, <<"p">>, <<"x">>}
StoredOrders == {GTK_SORT_ASCENDING, GTK_SORT_DESCENDING, SortOrderNone, SortOrderUnknown}
ColumnOrderChars == {"n", "p", "c", "m", ";", "x"}
ColumnOrderTexts == UNION {[1..n -> ColumnOrderChars] : n \in 0..MaxColumnOrderLen}

InitSettingsView ==
    /\ settings_namespace \in {"AppsPage", "ServicesPage"}
    /\ InitPage
    /\ app_arg = [pids |-> <<>>]
    /\ process_map_arg = <<>>
    /\ primary_result = <<>>
    /\ NoAction
    /\ NoCycleCall
    /\ NoSearch
    /\ toggle_group = <<>>
    /\ filter_list_model = <<>>
    /\ view_log = <<>>
    /\ headers = DefaultHeaders
    /\ column_view = [columns |-> DefaultColumns, sorter |-> <<>>]
    /\ phase = "new"
    /\ column_titles = <<>>

(* A start of the program over a store that holds any sort *)
InitSorting ==
    /\ InitSettingsView
    /\ \E remember \in BOOLEAN, name \in StoredNames, order \in StoredOrders :
          settings = Preferences(remember, FALSE)
                     @@ StoredFor(settings_namespace, name, order, <<>>)
                     @@ OtherStored(settings_namespace)

(* A start of the program over a store that holds any column order *)
InitColumns ==
    /\ InitSettingsView
    /\ \E remember \in BOOLEAN, text \in ColumnOrderTexts :
          settings = Preferences(FALSE, remember)
                     @@ StoredFor(settings_namespace, <<>>, GTK_SORT_ASCENDING, text)
                     @@ OtherStored(settings_namespace)

(* TableView::setup: update_column_order, the models, settings::configure.  *)
(* The entry of view_log keeps the sort the store held for the view         *)
TableView_setup ==
    /\ phase = "new"
    /\ Len(view_log) < MaxSettingsEvents
    /\ LET ordered == update_column_order(settings, settings_namespace, column_view.columns)
           sorted == configure_sorting(ordered.settings, settings_namespace,
                                       ordered.columns, column_view.sorter)
       IN /\ settings' = sorted.settings
          /\ column_view' = [columns |-> ordered.columns, sorter |-> sorted.sorter]
          /\ diagnostics' = sorted.diagnostics
    /\ phase' = "running"
    /\ view_log' = Append(view_log,
                          [event |-> "setup",
                           stored |-> <<settings["apps-page-remember-sorting"],
                                        settings[format_value(settings_namespace,
                                                              "SortingColumnName")],
                                        settings[format_value(settings_namespace,
                                                              "SortingOrder")]>>])
    /\ UNCHANGED <<settings_namespace, heap, readings, use_merged_stats, cycle, before>>
    /\ UNCHANGED <<resolverVars, actionVars, recursionVars, filterVars>>
    /\ UNCHANGED <<toggle_group, filter_list_model, headers, column_titles>>

(* The user sorts by a column, ascending or descending *)
user_sorts(column, order) ==
    /\ phase = "running"
    /\ Len(view_log) < MaxSettingsEvents
    /\ column \in ColumnIds(column_view.columns)
    /\ column_view' = [column_view EXCEPT !.sorter = <<column, order>>]
    /\ settings' = sorter_changed(settings, settings_namespace, <<column, order>>)
    /\ view_log' = Append(view_log, [event |-> "sort", stored |-> <<>>])
    /\ UNCHANGED phase
    /\ UNCHANGED <<pageVars, resolverVars, actionVars, recursionVars, filterVars>>
    /\ UNCHANGED <<toggle_group, filter_list_model, headers, column_titles>>

(* The user clears the sort (third click on the sorted column's header) *)
user_clears_sort ==
    /\ phase = "running"
    /\ Len(view_log) < MaxSettingsEvents
    /\ column_view.sorter # <<>>
    /\ column_view' = [column_view EXCEPT !.sorter = <<>>]
    /\ settings' = sorter_changed(settings, settings_namespace, <<>>)
    /\ view_log' = Append(view_log, [event |-> "clear", stored |-> <<>>])
    /\ UNCHANGED phase
    /\ UNCHANGED <<pageVars, resolverVars, actionVars, recursionVars, filterVars>>
    /\ UNCHANGED <<toggle_group, filter_list_model, headers, column_titles>>

(* The user drags a column to another place: the column is removed and      *)
(* inserted, the closure of connect_items_changed runs on both              *)
column_moved(from, to) ==
    /\ phase = "running"
    /\ Len(view_log) < MaxSettingsEvents
    /\ from # to
    /\ LET removed == Remove(column_view.columns, from)
           moved == SubSeq(removed, 1, to - 1) \o <<column_view.columns[from]>>
                    \o SubSeq(removed, to, Len(removed))
           stored == columns_items_changed(settings, settings_namespace, removed)
       IN /\ column_view' = [column_view EXCEPT !.columns = moved]
          /\ settings' = columns_items_changed(stored, settings_namespace, moved)
    /\ view_log' = Append(view_log, [event |-> "move", stored |-> <<>>])
    /\ UNCHANGED phase
    /\ UNCHANGED <<pageVars, resolverVars, actionVars, recursionVars, filterVars>>
    /\ UNCHANGED <<toggle_group, filter_list_model, headers, column_titles>>

(* The program is closed and started again: the store is kept, the view is  *)
(* built anew; the user may have changed the preference in between          *)
restart(remember_sorting) ==
    /\ phase = "running"
    /\ Len(view_log) < MaxSettingsEvents
    /\ phase' = "new"
    /\ column_view' = [columns |-> DefaultColumns, sorter |-> <<>>]
    /\ settings' = [settings EXCEPT !["apps-page-remember-sorting"] = remember_sorting]
    /\ view_log' = Append(view_log, [event |-> "restart", stored |-> column_view.sorter])
    /\ UNCHANGED <<pageVars, resolverVars, actionVars, recursionVars, filterVars>>
    /\ UNCHANGED <<toggle_group, filter_list_model, headers, column_titles>>

NextSorting ==
    \/ TableView_setup
    \/ \E column \in ColumnIds(DefaultColumns), order \in {"Ascending", "Descending"} :
          user_sorts(column, order)
    \/ user_clears_sort
    \/ \E remember_sorting \in BOOLEAN : restart(remember_sorting)

SpecSorting == InitSorting /\ [][NextSorting]_vars

NextColumns ==
    \/ TableView_setup
    \/ \E from, to \in 1..Len(DefaultColumns) : column_moved(from, to)

SpecColumns == InitColumns /\ [][NextColumns]_vars

----------------------------------------------------------------------------
(* Properties of primary_processes, under SpecPrimary *)

(* A pid of the app is secondary iff a pid of the app that is in the process *)
(* table lists it among its children                                         *)
StatedSecondary ==
    {c \in Range(app_arg.pids) :
        \E p \in Range(app_arg.pids) \cap DOMAIN process_map_arg :
            c \in process_map_arg[p].children}

StatedPrimary == Range(app_arg.pids) \ StatedSecondary

(* C8: whenever at least one app pid is not secondary, primary_processes    *)
(* returns exactly the app pids minus the secondary pids.                   *)
C8_PrimaryIsAppPidsMinusSecondary ==
    (primary_result # <<>> /\ StatedPrimary # {}) => primary_result[1] = StatedPrimary

C8_Witness ==
    /\ primary_result # <<>>
    /\ StatedSecondary # {}
    /\ StatedPrimary # {}
    /\ Cardinality(StatedSecondary) >= 2
    /\ primary_result[1] = StatedPrimary

StatedQualifies(i) ==
    \/ /\ app_arg.pids[i] \in DOMAIN process_map_arg
       /\ process_map_arg[app_arg.pids[i]].children # {}
    \/ i = Len(app_arg.pids)

StatedFallback ==
    LET qualifying == {i \in 1..Len(app_arg.pids) : StatedQualifies(i)}
    IN IF qualifying = {} THEN {} ELSE {app_arg.pids[Min(qualifying)]}

(* C9: when the app pids minus the secondary pids is empty, the result is   *)
(* the singleton of the first pid, in list order, that has children or is   *)
(* the last of the list, and is empty if no pid qualifies.                  *)
C9_FallbackPicksFirstQualifying ==
    (primary_result # <<>> /\ StatedPrimary = {}) => primary_result[1] = StatedFallback

C9_Witness ==
    /\ primary_result # <<>>
    /\ StatedPrimary = {}
    /\ Len(app_arg.pids) >= 2
    /\ app_arg.pids[1] \notin DOMAIN process_map_arg
    /\ primary_result[1] = {app_arg.pids[2]}

----------------------------------------------------------------------------
(* Properties of the reconciled tree, under Spec *)

Descendants(h, ref) == Reachable(h, {ref}) \ {ref}

ChildRefs(h, owner) == Range(h[owner].children)

(* The process nodes of the page's tree (an app's borrowed children are not *)
(* part of the tree of the Processes section)                               *)
TreeRefs(h) ==
    IF settings_namespace = "AppsPage" THEN Descendants(h, SecondSectionRef)
    ELSE Descendants(h, FirstSectionRef) \cup Descendants(h, SecondSectionRef)

Holding(h, pid) == {r \in TreeRefs(h) : h[r].content_type = "Process" /\ h[r].pid = pid}

SectionKeyHolders(h, section, id) == {r \in ChildRefs(h, section) : h[r].id = id}

SectionKeys(r, section) ==
    IF settings_namespace = "AppsPage"
    THEN (IF section = FirstSectionRef THEN DOMAIN r.running_apps ELSE {})
    ELSE {to_string(k) : k \in DOMAIN (IF section = FirstSectionRef THEN r.user_services
                                        ELSE r.system_services)}

ListedIds(h, section) == {h[r].id : r \in ChildRefs(h, section)}

AppsCycleDone == settings_namespace = "AppsPage" /\ cycle > 0

(* C1: every process, app or service present with the same key in two      *)
(* consecutive snapshots is held, after the second cycle, by the node       *)
(* object that held it after the first, also when the process's parent      *)
(* differs between the two snapshots.                                       *)
C1_SameObjectForEveryKey ==
    cycle > 0 =>
        /\ \A pid \in DOMAIN before.readings.running_processes
                        \cap DOMAIN readings.running_processes :
              (Holding(before.heap, pid) # {} /\ Holding(heap, pid) # {})
                  => Holding(heap, pid) = Holding(before.heap, pid)
        /\ \A section \in {FirstSectionRef, SecondSectionRef} :
              \A id \in SectionKeys(before.readings, section) \cap SectionKeys(readings, section) :
                  SectionKeyHolders(heap, section, id)
                      = SectionKeyHolders(before.heap, section, id)

(* C2: after update_apps (update_services) the ids of the nodes in the      *)
(* section's child list are exactly the keys of the incoming app (service)  *)
(* map and no id is listed twice, after any sequence of snapshots, apps     *)
(* with an empty primary set included.                                      *)
C2_SectionListsExactlyTheMapKeys ==
    \A section \in {FirstSectionRef, SecondSectionRef} :
        (settings_namespace = "AppsPage" => section = FirstSectionRef) =>
            /\ ListedIds(heap, section) = SectionKeys(readings, section)
            /\ Len(heap[section].children) = Cardinality(SectionKeys(readings, section))

C2_Witness ==
    /\ AppsCycleDone
    /\ cycle = MaxCycles
    /\ DOMAIN readings.running_apps = AppIds
    /\ DOMAIN before.readings.running_apps \notin {{}, AppIds}
    /\ \E a \in AppIds : primary_processes(readings.running_apps[a],
                                           readings.running_processes) = {}
    /\ Len(heap[FirstSectionRef].children) = 2

(* C3: after every AppsPage refresh cycle every process node of the         *)
(* Processes-section tree has a pid that is a key of that cycle's process   *)
(* map, whatever the snapshot (the process map may be empty).               *)
C3_NoLeakedProcessNodes ==
    AppsCycleDone =>
        \A r \in Descendants(heap, SecondSectionRef) :
            heap[r].pid \in DOMAIN readings.running_processes

(* The node or nodes a process of the table hangs under: the Processes      *)
(* section header for a child of the root (least) pid, else its parent's    *)
(* nodes                                                                    *)
ParentOwners(h, pm, pid) ==
    UNION {IF q = Min(DOMAIN pm) THEN {SecondSectionRef} ELSE Holding(h, q) :
           q \in {q \in DOMAIN pm : pid \in pm[q].children}}

(* C4: after every AppsPage refresh cycle on a forest-shaped process table  *)
(* every pid of the table other than the root (least) pid has exactly one   *)
(* node in the Processes-section tree, in the child list of its parent's    *)
(* node (of the section header when its parent is the root).                *)
C4_EveryNonRootPidHasItsNode ==
    (AppsCycleDone /\ DOMAIN readings.running_processes # {}) =>
        LET pm == readings.running_processes
        IN \A pid \in DOMAIN pm \ {Min(DOMAIN pm)} :
              /\ Cardinality(Holding(heap, pid)) = 1
              /\ \A r \in Holding(heap, pid) :
                    \A owner \in ParentOwners(heap, pm, pid) : r \in ChildRefs(heap, owner)

(* C5: after every refresh cycle every child of an app node is the node     *)
(* object the Processes-section tree holds for that pid in the same cycle.  *)
C5_AppChildrenAreCurrentProcessNodes ==
    AppsCycleDone =>
        \A a \in ChildRefs(heap, FirstSectionRef) :
            \A c \in ChildRefs(heap, a) : c \in Holding(heap, heap[c].pid)

(* C6: after a refresh cycle an app node's child list holds exactly one     *)
(* node for each primary pid of the app and nothing else (process 1 with    *)
(* child 2 and an app owning <<1, 2>>: one child, with id "1").             *)
C6_AppChildrenAreThePrimaryPids ==
    AppsCycleDone =>
        \A id \in DOMAIN readings.running_apps :
            \A a \in SectionKeyHolders(heap, FirstSectionRef, id) :
                LET primary == primary_processes(readings.running_apps[id],
                                                 readings.running_processes)
                IN /\ ChildPids(heap, a) = primary
                   /\ Len(heap[a].children) = Cardinality(primary)

AppStats(app, pm) ==
    LET found == primary_processes(app, pm) \cap DOMAIN pm
    IN SumOver(found, [pid \in found |-> merged_usage_stats(pm[pid], pm)])

(* C7: when the primary-process resolution of an app yields the empty set,  *)
(* the app's node ends the cycle with no children and a diagnostic names    *)
(* the app, and every other app of the map is reconciled in the same cycle  *)
(* (one node each, carrying the cycle's stats).                             *)
C7_EmptyPrimaryClearsChildren ==
    AppsCycleDone =>
        LET am == readings.running_apps
            pm == readings.running_processes
            empty == {id \in DOMAIN am : primary_processes(am[id], pm) = {}}
        IN /\ diagnostics = empty
           /\ \A id \in DOMAIN am :
                 /\ Cardinality(SectionKeyHolders(heap, FirstSectionRef, id)) = 1
                 /\ \A a \in SectionKeyHolders(heap, FirstSectionRef, id) :
                       IF id \in empty THEN heap[a].children = <<>>
                       ELSE heap[a].usage_stats = AppStats(am[id], pm)

C7_Witness ==
    /\ AppsCycleDone
    /\ \E id \in DOMAIN readings.running_apps \cap DOMAIN before.readings.running_apps :
          /\ id \in diagnostics
          /\ \E a \in SectionKeyHolders(before.heap, FirstSectionRef, id) :
                /\ before.heap[a].children # <<>>
                /\ a \in DOMAIN heap
                /\ heap[a].children = <<>>
    /\ \E id \in DOMAIN readings.running_apps \ diagnostics :
          \E a \in SectionKeyHolders(heap, FirstSectionRef, id) : heap[a].children # <<>>

----------------------------------------------------------------------------
(* Properties of the process actions, under SpecActions *)

(* The nodes of a subtree, parents before children, children in list order *)
RECURSIVE Preorder(_, _)
RECURSIVE PreorderOfList(_, _, _)
PreorderOfList(h, list, index) ==
    IF index > Len(list) THEN <<>>
    ELSE Preorder(h, list[index]) \o PreorderOfList(h, list, index + 1)

Preorder(h, ref) == <<ref>> \o PreorderOfList(h, h[ref].children, 1)

PlainIn(h, ref) == {r \in Reachable(h, {ref}) : h[r].name # Bwrap}

(* C11: the set primary_processes returns is a subset of the app's pid      *)
(* list; the pid list an app-level process action dispatches holds only     *)
(* pids of nodes of the selected app's subtree that are not named "bwrap",  *)
(* one for each child whose subtree holds such a node and none for a child  *)
(* whose unwrapping finds no candidate.                                     *)
C11_NoPidIsFabricated ==
    /\ primary_result # <<>> => primary_result[1] \subseteq Range(app_arg.pids)
    /\ (dispatched # <<>> /\ heap[selected_item].content_type = "App") =>
          LET children == heap[selected_item].children
              resolving == SelectSeq(children, LAMBDA c : PlainIn(heap, c) # {})
          IN /\ Len(dispatched[1]) = Len(resolving)
             /\ \A i \in 1..Len(resolving) :
                   dispatched[1][i] \in {heap[r].pid : r \in PlainIn(heap, resolving[i])}

C11_Witness ==
    /\ dispatched # <<>>
    /\ heap[selected_item].content_type = "App"
    /\ Len(heap[selected_item].children) = 2
    /\ Len(dispatched[1]) = 1
    /\ \E c \in Range(heap[selected_item].children) :
          /\ heap[c].name = Bwrap
          /\ heap[c].children # <<>>
          /\ PlainIn(heap, c) = {}
    /\ \E c \in Range(heap[selected_item].children) :
          /\ heap[c].name = Bwrap
          /\ \E r \in PlainIn(heap, c) : heap[r].pid \in Range(dispatched[1])

(* The result the unwrapping is stated to have: the node itself unless it   *)
(* is named "bwrap", else the first descendant not named "bwrap" met going  *)
(* depth-first through the child lists, none when there is no such node     *)
StatedStoppable(h, row_model) ==
    IF h[row_model].name # Bwrap THEN <<row_model>>
    ELSE LET plain == SelectSeq(Preorder(h, row_model), LAMBDA r : h[r].name # Bwrap)
         IN IF plain = <<>> THEN <<>> ELSE <<plain[1]>>

(* C12: find_stoppable_child returns the node itself when it is not named   *)
(* "bwrap"; for a node named "bwrap" it returns the first descendant not    *)
(* named "bwrap" in depth-first order, and nothing when every descendant is *)
(* named "bwrap" or there is none.                                          *)
C12_UnwrapsDepthFirst ==
    stoppable_result # <<>> =>
        stoppable_result[2] = StatedStoppable(heap, stoppable_result[1])

C12_Witness ==
    /\ stoppable_result # <<>>
    /\ heap[stoppable_result[1]].name = Bwrap
    /\ stoppable_result[2] # <<>>
    /\ stoppable_result[2][1] \notin Range(heap[stoppable_result[1]].children)
    /\ \E c \in Range(heap[stoppable_result[1]].children) : heap[c].name # Bwrap

----------------------------------------------------------------------------
(* Properties of the services page, under Spec *)

ServicesCycleDone == settings_namespace = "ServicesPage" /\ cycle > 0

ServiceSections ==
    {<<FirstSectionRef, readings.user_services>>,
     <<SecondSectionRef, readings.system_services>>}

ServiceNodes(h, section, service_id) ==
    {r \in ChildRefs(h, section) : h[r].service_id = service_id}

(* C13: after every services refresh cycle a service node's child list is   *)
(* exactly one process node with the service's pid when the service has a   *)
(* pid that is in the process table, and is empty otherwise; no child of an *)
(* earlier pid is kept.                                                     *)
C13_ServiceHoldsItsOwningProcessOnly ==
    ServicesCycleDone =>
        \A pair \in ServiceSections :
            \A k \in DOMAIN pair[2] :
                \A node \in ServiceNodes(heap, pair[1], pair[2][k].id) :
                    LET service == pair[2][k]
                        children == heap[node].children
                    IN IF service.pid # <<>> /\ service.pid[1] \in DOMAIN readings.running_processes
                       THEN /\ Len(children) = 1
                            /\ heap[children[1]].content_type = "Process"
                            /\ heap[children[1]].pid = service.pid[1]
                       ELSE children = <<>>

C13_Witness ==
    /\ ServicesCycleDone
    /\ cycle = MaxCycles
    /\ \E k \in DOMAIN readings.user_services \cap DOMAIN before.readings.user_services :
          LET now == readings.user_services[k]
              was == before.readings.user_services[k]
          IN /\ was.pid # <<>> /\ now.pid # <<>> /\ was.pid # now.pid
             /\ was.pid[1] \in DOMAIN before.readings.running_processes
             /\ now.pid[1] \in DOMAIN readings.running_processes
             /\ \E node \in ServiceNodes(heap, FirstSectionRef, now.id) :
                   /\ node \in ServiceNodes(before.heap, FirstSectionRef, now.id)
                   /\ Len(before.heap[node].children) = 1
                   /\ Len(heap[node].children) = 1
                   /\ heap[heap[node].children[1]].pid = now.pid[1]
    /\ \E k \in DOMAIN readings.system_services \cap DOMAIN before.readings.system_services :
          /\ before.readings.system_services[k].pid # <<>>
          /\ readings.system_services[k].pid # <<>>
          /\ readings.system_services[k].pid[1] \notin DOMAIN readings.running_processes
          /\ \E node \in ServiceNodes(before.heap, SecondSectionRef, k) :
                before.heap[node].children # <<>>

----------------------------------------------------------------------------
(* Properties of the stats, under SpecStats *)

(* The processes of a table below (and including) a pid, by the child links *)
RECURSIVE Subtree(_, _)
Subtree(pm, pids) ==
    LET next == pids \cup UNION {pm[p].children \cap DOMAIN pm : p \in pids}
    IN IF next = pids THEN pids ELSE Subtree(pm, next)

RawTotal(pm, pids) ==
    LET sum[S \in SUBSET pids] ==
            IF S = {} THEN 0
            ELSE LET p == CHOOSE q \in S : TRUE IN pm[p].usage_stats + sum[S \ {p}]
    IN IF sum[pids] > MaxStat THEN MaxStat ELSE sum[pids]

WrittenProcessNodes(h) ==
    {r \in TreeRefs(h) : /\ h[r].content_type = "Process"
                         /\ h[r].pid \in DOMAIN readings.running_processes}

(* C14: with the merge flag on, the stats a cycle writes to a process node  *)
(* are the saturating sum of the raw stats of the process and of all its    *)
(* transitive descendants in the cycle's process table.                     *)
C14_MergedStatsAreTheSubtreeTotal ==
    (cycle > 0 /\ before.use_merged_stats) =>
        \A r \in WrittenProcessNodes(heap) :
            heap[r].usage_stats
                = RawTotal(readings.running_processes,
                           Subtree(readings.running_processes, {heap[r].pid}))

C14_Witness ==
    /\ cycle = MaxCycles
    /\ before.use_merged_stats
    /\ \E r \in WrittenProcessNodes(heap) :
          /\ r \in DOMAIN before.heap
          /\ Cardinality(Subtree(readings.running_processes, {heap[r].pid})) = MaxPid
          /\ heap[r].usage_stats = MaxStat
    /\ \E r \in WrittenProcessNodes(heap) :
          /\ Cardinality(Subtree(readings.running_processes, {heap[r].pid})) = 2
          /\ heap[r].usage_stats < MaxStat

(* C15: with the merge flag off, the stats a cycle writes to a process node *)
(* or to a service node are the raw stats of the node's own process (for a  *)
(* service: of its owning process), nothing of the descendants added.       *)
C15_RawStatsAreTheProcessOwn ==
    (cycle > 0 /\ ~before.use_merged_stats) =>
        /\ \A r \in WrittenProcessNodes(heap) :
              heap[r].usage_stats = readings.running_processes[heap[r].pid].usage_stats
        /\ \A r \in ChildRefs(heap, FirstSectionRef) \cup ChildRefs(heap, SecondSectionRef) :
              (heap[r].content_type = "Service"
                   /\ heap[r].pid \in DOMAIN readings.running_processes)
                  => heap[r].usage_stats
                         = readings.running_processes[heap[r].pid].usage_stats

----------------------------------------------------------------------------
(* Properties of the names, under Spec *)

(* C16: after every cycle each node whose key is still in the snapshot      *)
(* shows the name a freshly built node would get: a process node the name   *)
(* derived from the current exe, cmd and name, an app or service node the   *)
(* name of the current record.                                              *)
C16_NamesFollowTheSnapshot ==
    cycle > 0 =>
        /\ \A r \in WrittenProcessNodes(heap) :
              heap[r].name = pretty_name(readings.running_processes[heap[r].pid])
        /\ \A id \in DOMAIN readings.running_apps :
              \A a \in SectionKeyHolders(heap, FirstSectionRef, id) :
                  heap[a].name = readings.running_apps[id].name
        /\ \A pair \in ServiceSections :
              \A k \in DOMAIN pair[2] :
                  \A node \in ServiceNodes(heap, pair[1], pair[2][k].id) :
                      heap[node].name = pair[2][k].name

----------------------------------------------------------------------------
(* Properties of the list order, under Spec *)

Kept(old, new) == SelectSeq(old, LAMBDA r : r \in Range(new))

Added(old, new) == SelectSeq(new, LAMBDA r : r \notin Range(old))

(* C17: in every child list a cycle touches (section lists, children of a   *)
(* process, of an app, of a service) the nodes that survive keep their      *)
(* relative order and every node the cycle adds stands after all of them.   *)
C17_SurvivorsInOrderThenAdded ==
    cycle > 0 =>
        \A owner \in DOMAIN before.heap \cap DOMAIN heap :
            heap[owner].children
                = Kept(before.heap[owner].children, heap[owner].children)
                    \o Added(before.heap[owner].children, heap[owner].children)

C17_Witness ==
    /\ AppsCycleDone
    /\ cycle = MaxCycles
    /\ LET old == before.heap[SecondSectionRef].children
           new == heap[SecondSectionRef].children
       IN /\ Len(old) = 1
          /\ Kept(old, new) = old
          /\ Len(Added(old, new)) = 1
          /\ heap[new[2]].pid < heap[new[1]].pid
    /\ LET old == before.heap[FirstSectionRef].children
           new == heap[FirstSectionRef].children
       IN Len(Kept(old, new)) = 2 /\ new = old

(* C18: every refresh cycle runs to completion whatever entity of the       *)
(* snapshot is malformed, child links that do not form a forest included:   *)
(* no cycle is aborted.                                                     *)
C18_EveryCycleRunsToCompletion == outcome # "stack overflow"

(* The match as the claim words it: by the text of the name and of the      *)
(* query in lower case and the pid written in decimal                       *)
RECURSIVE StatedLevenshtein(_, _)
StatedLevenshtein(a, b) ==
    IF a = <<>> THEN Len(b)
    ELSE IF b = <<>> THEN Len(a)
    ELSE IF Head(a) = Head(b) THEN StatedLevenshtein(Tail(a), Tail(b))
    ELSE 1 + Min({StatedLevenshtein(Tail(a), b), StatedLevenshtein(a, Tail(b)),
                  StatedLevenshtein(Tail(a), Tail(b))})

StatedMatch ==
    LET name == to_lowercase(filter_item.name)
        query == to_lowercase(header_search_entry)
        pid == decimal(filter_item.pid)
    IN \/ Contains(name, query)
       \/ Contains(query, name)
       \/ Contains(pid, query)
       \/ Contains(query, pid)
       \/ 10 * StatedLevenshtein(name, query) <= 6 * Max({Len(name), Len(query)})

(* C19: the search passes every node while the search button is inactive or *)
(* the query is empty, and passes a section header whatever the query.      *)
C19_SearchOffOrHeaderPasses ==
    (/\ search_result # <<>>
     /\ \/ ~search_button
        \/ header_search_entry = <<>>
        \/ filter_item.content_type = "SectionHeader") => search_result[1]

C19_Witness ==
    /\ search_result = <<TRUE>>
    /\ search_button
    /\ header_search_entry # <<>>
    /\ filter_item.content_type = "SectionHeader"
    /\ ~StatedMatch

(* C20: with the search active and a query that is not empty, a node that   *)
(* is no section header passes exactly when its lower-case name contains    *)
(* the lower-case query, or the query the name, or its pid in decimal       *)
(* contains or is contained in the query, or the Levenshtein distance of    *)
(* name and query divided by the longer length is at most 0.6 (0.6 passes). *)
C20_MatchIsContainmentOrCloseName ==
    (/\ search_result # <<>>
     /\ search_button
     /\ header_search_entry # <<>>
     /\ filter_item.content_type # "SectionHeader") => (search_result[1] <=> StatedMatch)

C20_Witness ==
    /\ search_result = <<TRUE>>
    /\ search_button
    /\ filter_item.content_type = "Process"
    /\ LET name == to_lowercase(filter_item.name)
           query == to_lowercase(header_search_entry)
           pid == decimal(filter_item.pid)
       IN /\ query # <<>>
          /\ ~Contains(name, query) /\ ~Contains(query, name)
          /\ ~Contains(pid, query) /\ ~Contains(query, pid)
          /\ 10 * StatedLevenshtein(name, query) = 6 * Max({Len(name), Len(query)})

(* C21 as stated: a node that passed because the query was an exact         *)
(* substring of its name still passes when the query is widened to a text   *)
(* that has the old query as an exact substring.                            *)
C21_WideningKeepsSubstringMatch ==
    (/\ search_result # <<>>
     /\ previous_search # <<>>
     /\ search_button
     /\ filter_item.content_type # "SectionHeader"
     /\ previous_search[1] # <<>>
     /\ Contains(to_lowercase(filter_item.name), to_lowercase(previous_search[1]))
     /\ Contains(header_search_entry, previous_search[1])) => search_result[1]

(* C21, amended: a node that passed because the query was an exact          *)
(* substring of its name still passes when the query is shortened to an     *)
(* exact substring of the old query; a widened query is matched afresh and  *)
(* the node may stop matching.                                              *)
C21_ShorteningKeepsSubstringMatch ==
    (/\ search_result # <<>>
     /\ previous_search # <<>>
     /\ search_button
     /\ filter_item.content_type # "SectionHeader"
     /\ previous_search[1] # <<>>
     /\ Contains(to_lowercase(filter_item.name), to_lowercase(previous_search[1]))
     /\ Contains(previous_search[1], header_search_entry)) => search_result[1]

C21_Witness ==
    /\ search_result = <<TRUE>>
    /\ previous_search # <<>>
    /\ previous_search[2]
    /\ search_button
    /\ filter_item.content_type = "Process"
    /\ Len(previous_search[1]) = MaxQueryLen
    /\ Contains(to_lowercase(filter_item.name), to_lowercase(previous_search[1]))
    /\ Contains(previous_search[1], header_search_entry)
    /\ header_search_entry # <<>>
    /\ ~Contains(decimal(filter_item.pid), header_search_entry)

(* The category predicate as the claim words it, on the fields of a node *)
StatedToggle(name, row_model) ==
    CASE name = "toggle_running" -> row_model.service_running
      [] name = "toggle_failed" -> row_model.service_failed
      [] name = "toggle_stopped" ->
             row_model.service_enabled /\ ~row_model.service_running
             /\ ~row_model.service_failed
      [] name = "toggle_disabled" ->
             ~row_model.service_enabled /\ ~row_model.service_running
             /\ ~row_model.service_failed

StatedCategory(row_model) ==
    \/ row_model.content_type = "SectionHeader"
    \/ \A i \in 1..Len(toggle_group) : ~toggle_group[i]
    \/ \E i \in 1..Len(toggle_group) : toggle_group[i] /\ StatedToggle(ToggleNames[i], row_model)

FilterJustChanged == view_log # <<>> /\ Last(view_log) # "update_readings"

(* C22: when the filter has just been asked about every row (a toggle was   *)
(* clicked or the search text edited), a row is shown exactly when it       *)
(* passes the search and the category predicate: headers always, every node *)
(* when no toggle is active, else a node for which the predicate of some    *)
(* active toggle holds.                                                     *)
C22_CategoryIsSomeActiveToggle ==
    FilterJustChanged =>
        \A r \in DOMAIN heap :
            filter_list_model[r].matches
                <=> (/\ search(search_button, header_search_entry, heap[r])
                     /\ StatedCategory(heap[r]))

C22_Witness ==
    /\ FilterJustChanged
    /\ Last(view_log) = "toggled"
    /\ toggle_group = [i \in 1..Len(ToggleNames) |-> ToggleNames[i] = "toggle_stopped"]
    /\ header_search_entry = <<>>
    /\ \E r \in DOMAIN heap :
          /\ heap[r].content_type = "Service"
          /\ heap[r].service_running /\ heap[r].service_enabled /\ ~heap[r].service_failed
          /\ ~filter_list_model[r].matches
    /\ filter_list_model[FirstSectionRef].matches

(* C23: after every refresh cycle, toggle click and search edit a row is    *)
(* shown exactly when the search and the category predicate hold on the     *)
(* fields the node has now.                                                 *)
C23_ShownRowsFollowTheLiveTree ==
    \A r \in DOMAIN heap :
        /\ r \in DOMAIN filter_list_model
        /\ filter_list_model[r].matches
               <=> custom_filter(search_button, header_search_entry, toggle_group, heap[r])

AppendedInLastCycle(r) ==
    /\ view_log # <<>>
    /\ Last(view_log) = "update_readings"
    /\ r \notin DOMAIN before.heap

(* The fields the closure reads of a row: the pid once the search is on     *)
(* with a text, the service flags once the search has passed and a toggle   *)
(* is active                                                                *)
PidWasRead == search_button /\ header_search_entry # <<>>

FlagsWereRead(item) ==
    /\ search(search_button, header_search_entry, item)
    /\ \E i \in 1..Len(toggle_group) : toggle_group[i]

(* C24: the filter reads no node between its append and the writing of its  *)
(* fields: what the filter read of a row appended in the last cycle is what *)
(* the node holds when the cycle is over.                                   *)
C24_NoReaderSeesAHalfBuiltNode ==
    \A r \in DOMAIN filter_list_model :
        AppendedInLastCycle(r) =>
            /\ PidWasRead => filter_list_model[r].item.pid = heap[r].pid
            /\ FlagsWereRead(filter_list_model[r].item) =>
                  /\ filter_list_model[r].item.service_running = heap[r].service_running
                  /\ filter_list_model[r].item.service_enabled = heap[r].service_enabled
                  /\ filter_list_model[r].item.service_failed = heap[r].service_failed
                  /\ filter_list_model[r].item.service_stopped = heap[r].service_stopped

StoresTheFlagsOf(row_model, service) ==
    /\ row_model.service_running = service.running
    /\ row_model.service_enabled = service.enabled
    /\ row_model.service_failed = service.failed
    /\ row_model.service_stopped = (service.enabled /\ ~service.running /\ ~service.failed)

StatedDisabled(row_model) ==
    ~row_model.service_enabled /\ ~row_model.service_running /\ ~row_model.service_failed

(* C29: after every services refresh cycle each service node and each       *)
(* process node beneath it stores running, enabled and failed of the        *)
(* service record and stopped = enabled and not running and not failed;     *)
(* stopped and disabled never hold together and neither holds for a running *)
(* or failed service.                                                       *)
C29_ServiceFlagsAreTheRecords ==
    ServicesCycleDone =>
        \A pair \in ServiceSections :
            \A k \in DOMAIN pair[2] :
                \A r \in ServiceNodes(heap, pair[1], pair[2][k].id) :
                    \A n \in {r} \cup Descendants(heap, r) :
                        /\ StoresTheFlagsOf(heap[n], pair[2][k])
                        /\ ~(heap[n].service_stopped /\ StatedDisabled(heap[n]))
                        /\ (heap[n].service_running \/ heap[n].service_failed)
                               => (~heap[n].service_stopped /\ ~StatedDisabled(heap[n]))

C29_Witness ==
    /\ ServicesCycleDone
    /\ cycle = MaxCycles
    /\ \E k \in DOMAIN readings.user_services \cap DOMAIN before.readings.user_services :
          /\ before.readings.user_services[k].running
          /\ ~readings.user_services[k].running
          /\ readings.user_services[k].enabled
          /\ ~readings.user_services[k].failed
          /\ \E r \in ServiceNodes(heap, FirstSectionRef, k) :
                /\ r \in DOMAIN before.heap
                /\ heap[r].service_stopped
                /\ \E n \in Descendants(heap, r) : heap[n].service_stopped

SectionRefs == {FirstSectionRef, SecondSectionRef}

(* C30: the two section headers made at construction are there after every  *)
(* refresh cycle, the same two objects and the only headers, roots of the   *)
(* tree (no list holds them); of their fields only the child lists change.  *)
C30_HeadersSurviveUnchanged ==
    /\ SectionRefs \subseteq DOMAIN heap
    /\ \A r \in DOMAIN heap :
          /\ heap[r].content_type = "SectionHeader" <=> r \in SectionRefs
          /\ Range(heap[r].children) \cap SectionRefs = {}
    /\ \A section \in SectionRefs :
          [heap[section] EXCEPT !.children = <<>>] = InitHeap[section]

C30_Witness ==
    /\ cycle = MaxCycles
    /\ \A section \in SectionRefs :
          /\ before.heap[section].children # <<>>
          /\ heap[section].children # <<>>
    /\ heap[SecondSectionRef].children # before.heap[SecondSectionRef].children
    /\ [heap[SecondSectionRef] EXCEPT !.children = <<>>] = InitHeap[SecondSectionRef]

(* The stored ids that name a column of the view, each once, in the order   *)
(* of the text                                                              *)
RECURSIVE StatedKnownIds(_, _, _)
StatedKnownIds(ids, columns, seen) ==
    IF ids = <<>> THEN <<>>
    ELSE IF Head(ids) \in ColumnIds(columns) \ seen
         THEN <<Head(ids)>> \o StatedKnownIds(Tail(ids), columns, seen \cup {Head(ids)})
         ELSE StatedKnownIds(Tail(ids), columns, seen)

StatedColumnOrder(text, columns) ==
    LET known == StatedKnownIds(Split(text, ";"), columns, {})
    IN known \o SelectSeq(columns, LAMBDA c : c \notin ColumnIds(known))

IsPermutationOf(a, b) ==
    /\ Len(a) = Len(b)
    /\ \E f \in [1..Len(a) -> 1..Len(a)] :
          /\ \A i, j \in 1..Len(a) : f[i] = f[j] => i = j
          /\ \A i \in 1..Len(a) : a[i] = b[f[i]]

(* C27: with "remember order" on, the columns after setup are the stored    *)
(* ids that name a column, in stored order, then the other columns in their *)
(* default order, and they are a permutation of the default columns,        *)
(* whatever the stored text (unknown, repeated and empty ids included).     *)
C27_LoadedOrderIsStoredThenDefault ==
    (/\ phase = "running"
     /\ Len(view_log) = 1
     /\ settings["apps-page-remember-column-order"])
    => /\ column_view.columns
          = StatedColumnOrder(settings[format_value(settings_namespace, "ColumnOrder")],
                              DefaultColumns)
       /\ IsPermutationOf(column_view.columns, DefaultColumns)

C27_Witness ==
    /\ phase = "running"
    /\ Len(view_log) = 1
    /\ settings["apps-page-remember-column-order"]
    /\ settings[format_value(settings_namespace, "ColumnOrder")] = <<"c", ";", "n", ";", "p">>
    /\ column_view.columns = <<<<"c">>, <<"n">>, <<"p">>, <<"m">>>>

(* C28: with "remember order" off, the stored column order of the view is   *)
(* empty from setup on, whatever columns the user moves.                    *)
C28_OrderStaysEmptyWhenNotRemembered ==
    (phase = "running" /\ ~settings["apps-page-remember-column-order"])
    => settings[format_value(settings_namespace, "ColumnOrder")] = <<>>

(* The view has just been set up; what the store held for its sort then *)
JustSetUp == phase = "running" /\ view_log # <<>> /\ Last(view_log).event = "setup"
RememberedAtSetup == Last(view_log).stored[1]
NameAtSetup == Last(view_log).stored[2]
OrderAtSetup == Last(view_log).stored[3]

(* C25 as stated: with "remember sorting" on, a stored direction other than *)
(* ascending and descending restores no sort at setup.                      *)
C25_UnknownOrderRestoresNoSort ==
    (/\ JustSetUp
     /\ RememberedAtSetup
     /\ OrderAtSetup \notin {GTK_SORT_ASCENDING, GTK_SORT_DESCENDING})
    => column_view.sorter = <<>>

(* C25: with "remember sorting" on, the stored direction 255 restores no    *)
(* sort at setup and logs nothing; any other stored direction that is       *)
(* neither ascending nor descending sorts the view ascending by the stored  *)
(* column when that column exists (no sort when it does not) and logs a     *)
(* critical message.                                                        *)
C25_UnknownOrderFallsBackToAscending ==
    (JustSetUp /\ RememberedAtSetup)
    => /\ OrderAtSetup = SortOrderNone
          => column_view.sorter = <<>> /\ diagnostics = {}
       /\ OrderAtSetup \notin {GTK_SORT_ASCENDING, GTK_SORT_DESCENDING, SortOrderNone}
          => /\ diagnostics # {}
             /\ column_view.sorter
                = IF NameAtSetup \in ColumnIds(column_view.columns)
                  THEN <<NameAtSetup, "Ascending">>
                  ELSE <<>>

C25_Witness ==
    /\ JustSetUp
    /\ RememberedAtSetup
    /\ OrderAtSetup = SortOrderUnknown
    /\ NameAtSetup = <<"n">>
    /\ column_view.sorter = <<<<"n">>, "Ascending">>
    /\ diagnostics # {}

(* The stored column and direction say which sort is displayed: no sort is  *)
(* a stored name that is no column or the stored direction 255              *)
StatedDescribes(name, order, sorter, columns) ==
    IF sorter = <<>>
    THEN name \notin ColumnIds(columns) \/ order = SortOrderNone
    ELSE /\ name = sorter[1]
         /\ order = IF sorter[2] = "Ascending" THEN GTK_SORT_ASCENDING
                    ELSE GTK_SORT_DESCENDING

(* C26: while the view runs, the stored sort column and direction of its    *)
(* namespace describe the displayed sort, whatever sorts the user chose or  *)
(* cleared, and the other namespace's keys hold what they held.             *)
C26_StoredSortIsDisplayedSort ==
    phase = "running"
    => /\ StatedDescribes(settings[format_value(settings_namespace, "SortingColumnName")],
                          settings[format_value(settings_namespace, "SortingOrder")],
                          column_view.sorter, column_view.columns)
       /\ \A k \in DOMAIN OtherStored(settings_namespace) :
             settings[k] = OtherStored(settings_namespace)[k]

----------------------------------------------------------------------------
(* Identity and ownership of the nodes, under Spec *)

(* The identity key of a node and what it is derived from *)
IdentityOf(row_model) ==
    CASE row_model.content_type = "Process" ->
             <<"Process", row_model.id, row_model.pid>>
      [] row_model.content_type = "App" -> <<"App", row_model.id>>
      [] row_model.content_type = "Service" ->
             <<"Service", row_model.id, row_model.service_id>>
      [] OTHER -> <<"SectionHeader", row_model.id>>

(* C31: a node keeps its content type and identity key from creation on: a  *)
(* process node has id = the decimal text of its pid and keeps its pid, an  *)
(* app node keeps its app id, a service node keeps its service id (its id   *)
(* the decimal text of it) while its pid field is rewritten by every cycle. *)
C31_IdentityNeverChanges ==
    /\ \A r \in DOMAIN heap :
          /\ heap[r].content_type = "Process" => heap[r].id = to_string(heap[r].pid)
          /\ heap[r].content_type = "Service" => heap[r].id = to_string(heap[r].service_id)
    /\ \A r \in DOMAIN heap \cap DOMAIN before.heap :
          IdentityOf(heap[r]) = IdentityOf(before.heap[r])

C31_Witness ==
    /\ cycle = MaxCycles
    /\ \E r \in DOMAIN heap \cap DOMAIN before.heap :
          /\ heap[r].content_type = "Service"
          /\ before.heap[r].pid # 0
          /\ heap[r].pid \notin {0, before.heap[r].pid}
          /\ heap[r].service_id = before.heap[r].service_id
          /\ \E c \in ChildRefs(heap, r) : heap[c].id = to_string(heap[r].pid)

(* The child lists a node stands in, one entry per place *)
Places(h, r) == {<<o, i>> \in (DOMAIN h) \X (1..Cardinality(DOMAIN h)) :
                    i <= Len(h[o].children) /\ h[o].children[i] = r}

(* The entity behind a node is in the snapshot *)
BackingEntityPresent(row_model, r) ==
    CASE row_model.content_type = "Process" -> row_model.pid \in DOMAIN r.running_processes
      [] row_model.content_type = "App" -> row_model.id \in DOMAIN r.running_apps
      [] row_model.content_type = "Service" ->
             row_model.service_id \in DOMAIN r.user_services \cup DOMAIN r.system_services
      [] OTHER -> TRUE

SingleOwner == \A r \in DOMAIN heap : Cardinality(Places(heap, r)) <= 1

LeavesOnlyWhenAbsent ==
    cycle > 0 =>
        \A r \in DOMAIN before.heap \ DOMAIN heap :
            ~BackingEntityPresent(before.heap[r], readings)

(* C32: every node stands in at most one child list of the tree, and a node *)
(* that was in the tree before a cycle and is not after it is one whose     *)
(* process, app or service is not in the cycle's snapshot.                  *)
C32_OneOwnerAndRemovedOnlyWhenAbsent == SingleOwner /\ LeavesOnlyWhenAbsent

----------------------------------------------------------------------------
(* The resolver and the stats of an app *)

(* C36: primary_processes returns the empty set exactly when the app's pid  *)
(* list is empty, whatever the process table, tables in which every app pid *)
(* is a child of another app pid included.                                  *)
C36_EmptyOnlyForNoPids ==
    primary_result # <<>> => (primary_result[1] = {} <=> app_arg.pids = <<>>)

C36_Witness ==
    /\ primary_result # <<>>
    /\ Cardinality(Range(app_arg.pids)) >= 2
    /\ StatedPrimary = {}
    /\ \A c \in Range(app_arg.pids) :
          \E p \in (Range(app_arg.pids) \ {c}) \cap DOMAIN process_map_arg :
              c \in process_map_arg[p].children
    /\ primary_result[1] # {}

(* C37: the stats update_app writes to an app node are the field-wise sum   *)
(* of the raw stats of the distinct processes in the subtrees of the app's  *)
(* primary pids: no process counts twice.                                   *)
C37_AppStatsCountEachProcessOnce ==
    AppsCycleDone =>
        \A id \in DOMAIN readings.running_apps :
            LET pm == readings.running_processes
                primary == primary_processes(readings.running_apps[id], pm)
            IN primary # {} =>
                  \A a \in SectionKeyHolders(heap, FirstSectionRef, id) :
                      heap[a].usage_stats = RawTotal(pm, Subtree(pm, primary \cap DOMAIN pm))

----------------------------------------------------------------------------
(* The display name of a new process node, under SpecNames *)

(* The text after the last occurrence of sep, the whole text if there is none *)
AfterLast(text, sep) ==
    LET at == {i \in 1..Len(text) : text[i] = sep}
    IN IF at = {} THEN text ELSE SubSeq(text, Max(at) + 1, Len(text))

(* The text without the whitespace before its first and after its last      *)
(* character that is none                                                   *)
Trimmed(text) ==
    LET solid == {i \in 1..Len(text) : text[i] \notin Whitespace}
    IN IF solid = {} THEN <<>> ELSE SubSeq(text, Min(solid), Max(solid))

(* The first run of characters that are no whitespace: <<>> if there is     *)
(* none, else <<the run>>                                                   *)
FirstToken(text) ==
    LET solid == {i \in 1..Len(text) : text[i] \notin Whitespace}
    IN IF solid = {} THEN <<>>
       ELSE LET from == Min(solid)
                gaps == {i \in from..Len(text) : text[i] \in Whitespace}
            IN <<SubSeq(text, from, IF gaps = {} THEN Len(text) ELSE Min(gaps) - 1)>>

WithoutOneColon(text) ==
    IF text # <<>> /\ text[Len(text)] = ":" THEN SubSeq(text, 1, Len(text) - 1) ELSE text

StatedWineName(process) ==
    IF process.cmd = <<>> THEN Trimmed(process.name)
    ELSE Trimmed(AfterLast(AfterLast(process.cmd[1], "\\"), "/"))

(* The name as stated; nothing is stated for an argv[0] that holds no token *)
StatedNameHolds(process, name) ==
    IF process.exe = <<>>
    THEN IF process.cmd = <<>> THEN name = Trimmed(process.name)
         ELSE FirstToken(process.cmd[1]) # <<>>
              => name = Trimmed(WithoutOneColon(AfterLast(FirstToken(process.cmd[1])[1], "/")))
    ELSE IF IsPrefix(WinePrefix, AfterLast(process.exe, "/"))
         THEN name = StatedWineName(process)
         ELSE name = AfterLast(process.exe, "/")

(* The name as the code derives it: the basename is trimmed, and the raw    *)
(* name stands in for the token when argv[0] holds none                     *)
AmendedName(process) ==
    IF process.exe = <<>>
    THEN IF process.cmd = <<>> THEN Trimmed(process.name)
         ELSE LET token == FirstToken(process.cmd[1])
              IN Trimmed(WithoutOneColon(IF token = <<>> THEN process.name
                                         ELSE AfterLast(token[1], "/")))
    ELSE IF IsPrefix(WinePrefix, AfterLast(process.exe, "/"))
         THEN StatedWineName(process)
         ELSE Trimmed(AfterLast(process.exe, "/"))

NewProcessNodes ==
    {r \in Descendants(heap, SecondSectionRef) \ DOMAIN before.heap :
        heap[r].content_type = "Process"}

----------------------------------------------------------------------------
(* The header of the services page against the category filter, under SpecView *)

AnyToggleActive == \E i \in 1..Len(toggle_group) : toggle_group[i]

(* The number the header shows: h2 carries it unless one of the fixed texts *)
(* stands there                                                             *)
HeaderNumber == IF Len(headers.h2) = 2 THEN headers.h2[1] ELSE 0

ServiceRows ==
    {r \in ChildRefs(heap, FirstSectionRef) \cup ChildRefs(heap, SecondSectionRef) :
        heap[r].content_type = "Service"}

PassingServiceNodes == {r \in ServiceRows : filter(toggle_group, heap[r])}

CountsSumToTotal ==
    headers.running_services + headers.failed_services + headers.stopped_services
        + headers.disabled_services = headers.total_services

HeaderNumberIsFilterCount ==
    (cycle > 0 /\ AnyToggleActive) => HeaderNumber = Cardinality(PassingServiceNodes)

(* C39: whenever some toggle is active, the number in the header of the     *)
(* services page is the number of service nodes the category filter lets    *)
(* through, and the four per-category counts sum to the total of services.  *)
C39_HeaderCountIsFilterCount == HeaderNumberIsFilterCount /\ CountsSumToTotal

----------------------------------------------------------------------------
(* The process nodes beneath a service and the stats of a service without   *)
(* a process, under SpecServices                                            *)

ToggleGroups == [1..Len(ToggleNames) -> BOOLEAN]

SameFlags(a, b) ==
    /\ a.service_running = b.service_running
    /\ a.service_enabled = b.service_enabled
    /\ a.service_failed = b.service_failed
    /\ a.service_stopped = b.service_stopped

(* C38: after every refresh cycle of the services page every process node   *)
(* beneath a service node, at any depth, has the four flags of the service  *)
(* node, and under every combination of toggles the category filter passes  *)
(* the process node exactly when it passes the service node.                *)
C38_ProcessNodesCarryTheServiceFlags ==
    ServicesCycleDone =>
        \A s \in ServiceRows : \A p \in Descendants(heap, s) :
            /\ heap[p].content_type = "Process"
            /\ SameFlags(heap[p], heap[s])
            /\ \A group \in ToggleGroups :
                  filter(group, heap[p]) <=> filter(group, heap[s])

(* A service whose flags changed in the second cycle holds its process and  *)
(* a child of that process, both nodes kept from the first cycle; some      *)
(* toggle combination hides them                                            *)
C38_Witness ==
    /\ ServicesCycleDone
    /\ cycle = MaxCycles
    /\ \E s \in ServiceRows \cap DOMAIN before.heap :
          /\ ~SameFlags(heap[s], before.heap[s])
          /\ \E p \in ChildRefs(heap, s) \cap DOMAIN before.heap :
                \E c \in ChildRefs(heap, p) \cap DOMAIN before.heap :
                   /\ heap[c].content_type = "Process"
                   /\ \E group \in ToggleGroups : ~filter(group, heap[c])
                   /\ \E group \in ToggleGroups :
                         filter(group, heap[c]) /\ ~filter(group, before.heap[c])

(* The service record of a service node in the snapshot *)
RecordOf(s) == readings.user_services[heap[s].service_id]

WithoutProcess(service) ==
    service.pid = <<>> \/ service.pid[1] \notin DOMAIN readings.running_processes

(* C40: a refresh cycle in which a service has no pid, or a pid that is not *)
(* in the process table, leaves the stats of its node as they were before   *)
(* the cycle (as the builder left them, for a node built in the cycle),     *)
(* while the node's pid and flags are those of the record.                  *)
C40_StatsKeptWithoutProcess ==
    ServicesCycleDone =>
        \A s \in ServiceRows :
            WithoutProcess(RecordOf(s)) =>
                /\ heap[s].usage_stats = IF s \in DOMAIN before.heap
                                         THEN before.heap[s].usage_stats ELSE 0
                /\ heap[s].pid = IF RecordOf(s).pid = <<>> THEN 0 ELSE RecordOf(s).pid[1]
                /\ heap[s].service_running = RecordOf(s).running
                /\ heap[s].service_enabled = RecordOf(s).enabled
                /\ heap[s].service_failed = RecordOf(s).failed

(* The process of the service was found in the first cycle and is gone in   *)
(* the second, in which the record has another pid and other flags          *)
C40_Witness ==
    /\ ServicesCycleDone
    /\ cycle = MaxCycles
    /\ \E s \in ServiceRows \cap DOMAIN before.heap :
          /\ RecordOf(s).pid # <<>>
          /\ WithoutProcess(RecordOf(s))
          /\ before.heap[s].usage_stats > 0
          /\ heap[s].usage_stats = before.heap[s].usage_stats
          /\ heap[s].pid # before.heap[s].pid
          /\ ~SameFlags(heap[s], before.heap[s])

----------------------------------------------------------------------------
(* The column titles, under SpecTitles *)

Divisors ==
    column_titles.memory_divisor \o column_titles.drive_divisor
        \o column_titles.gpu_divisor \o column_titles.gpu_memory_divisor

NoZeroDivisor == column_titles # <<>> => \A i \in 1..Len(Divisors) : Divisors[i] # 0

MemoryTitleInRange ==
    column_titles # <<>> => column_titles.memory \in {to_string(n) : n \in 0..100}

(* C34: no percentage of update_column_titles is the result of a division   *)
(* by zero, whatever the snapshot (total memory 0, no disks, no GPUs, GPUs  *)
(* whose total memory sums to 0), and the memory percentage is between 0    *)
(* and 100.                                                                 *)
C34_NoDivisionByZero == NoZeroDivisor /\ MemoryTitleInRange

----------------------------------------------------------------------------
(* The actions against the selection, under SpecSelection *)

SelectedRow == heap[selected_item]

ProcessActionsFollowSelection ==
    \A name \in ProcessActionNames \cap DOMAIN action_enabled :
        action_enabled[name] <=> SelectedRow.content_type \in {"Process", "App"}

ServiceActionsFollowSelection ==
    settings_namespace = "ServicesPage" =>
        /\ action_enabled["service.start"] <=>
               (SelectedRow.content_type = "Service" /\ ~SelectedRow.service_running)
        /\ action_enabled["service.stop"] <=>
               (SelectedRow.content_type = "Service" /\ SelectedRow.service_running)
        /\ action_enabled["service.restart"] <=>
               (SelectedRow.content_type = "Service" /\ SelectedRow.service_running)

(* What the action activated last has handed on *)
DispatchIsOfSelection ==
    (view_log # <<>> /\ view_log[Len(view_log)] \in ProcessActionNames \cup ServiceActionNames)
        => LET name == view_log[Len(view_log)]
           IN dispatched =
                 IF name \in {"process.details", "service.details"} THEN <<SelectedRow.id>>
                 ELSE IF name \in ServiceActionNames THEN <<SelectedRow.service_id>>
                 ELSE IF SelectedRow.content_type = "Process" THEN <<<<SelectedRow.pid>>>>
                 ELSE <<app_pids(heap, selected_item, 1)>>

(* C35: after any selection changes and refresh cycles every process action *)
(* is enabled exactly when the selected row is a Process or an App, start   *)
(* exactly when it is a Service that is not running, stop and restart       *)
(* exactly when it is a running Service; and an activated action hands on   *)
(* the pid, the resolved pids or the service id of the selected row.        *)
C35_ActionsFollowTheSelection ==
    /\ action_enabled # <<>>
    /\ ProcessActionsFollowSelection
    /\ ServiceActionsFollowSelection
    /\ DispatchIsOfSelection

(* The selected service, selected by the user after the first cycle, was    *)
(* stopped in the second cycle: start has become enabled, stop disabled     *)
C35_Witness ==
    /\ settings_namespace = "ServicesPage"
    /\ cycle = MaxCycles
    /\ view_log = <<"update_readings", "select", "update_readings">>
    /\ SelectedRow.content_type = "Service"
    /\ selected_item \in DOMAIN before.heap
    /\ before.heap[selected_item].service_running
    /\ ~SelectedRow.service_running
    /\ action_enabled["service.start"]
    /\ ~action_enabled["service.stop"]

====
